---- MODULE Spec2Model ----
(***************************************************************************)
(* Model of backend/data_processor.py (class NYCEmissionsData): the cached *)
(* baseline grid, the grid accessor and the intervention engine            *)
(* (apply_intervention), with the geometry tests they use.                 *)
(*                                                                         *)
(* Units.  Coordinates are integers in millidegrees (40.49 -> 40490).      *)
(* Grid values are fixed point with VS units per tonne (100.0 -> 1000000). *)
(* Multiplicative factors are fixed point with FS units per 1.0.           *)
(* change_percent is an integer number of percent, radius_km an integer    *)
(* number of metres, an overlay weight an integer number of tenths.        *)
(* The clock counts minutes.                                               *)
(***************************************************************************)
EXTENDS Integers, Sequences, FiniteSets, TLC

(* ---------------------------- bounds ----------------------------------- *)
GridRes == 5          \* grid_resolution handed to the constructor
MaxMods == 2          \* longest geographic_modifications list explored
MaxTime == 1          \* clock ticks explored
TickMinutes == 60     \* minutes per clock tick
SynthRes == 8         \* grid_resolution in the construction runs
MaxSyntheses == 2     \* calls of _generate_baseline explored on one object

(* ------------------------ program constants ---------------------------- *)
South == 40490
North == 40920
West == -74260
East == -73700
KmPerDegree == 111
PatternRadius == 50            \* 0.05 degrees
DefaultChangePercent == 0      \* mod.get('change_percent', 0)
CacheMinutes == 60             \* timedelta(hours=1)
RadiusCells == 6               \* radius_cells of an airport

VS == 100 * 100                \* value units per tonne
FS == 1000 * 1000              \* factor units per 1.0

FloorFactor == FS \div 100             \* max(0.01, ...)
LowEmissionThreshold == 20 * VS        \* baseline_emissions[i, j] < 20
DefaultRadiusKm == 5 * 1000            \* mod.get('radius_km', 5), in metres


(* ------------------------ fixed-point helpers -------------------------- *)
Abs(x) == IF x < 0 THEN 0 - x ELSE x

Max(a, b) == IF a >= b THEN a ELSE b

Min(a, b) == IF a <= b THEN a ELSE b

\* floor(v * f / 10^6) computed in pieces that stay inside 32-bit integers
MulDiv(v, f) ==
    LET vh == v \div 1000
        vl == v % 1000
        fh == f \div 1000
        fl == f % 1000
    IN  vh * fh + ((vh * fl + vl * fh) + ((vl * fl) \div 1000)) \div 1000

\* Taylor sum of exp(-y), y = ys/2000 in [0, 1], at scale 10^6
RECURSIVE ExpSeries(_, _, _, _)
ExpSeries(ys, n, term, acc) ==
    IF n > 10 \/ term = 0 THEN acc
    ELSE LET t == (term * ys) \div (2000 * n)
         IN  ExpSeries(ys, n + 1, t, IF n % 2 = 1 THEN acc - t ELSE acc + t)

\* np.exp(-x) for x = xs/1000 in [0, 2], at scale 10^6: exp(-x/2) squared
ExpNeg(xs) ==
    LET h == ExpSeries(xs, 1, 1000000, 1000000)
    IN  MulDiv(h, h)

(* ------------------------------ the grid ------------------------------- *)
Idx == 1..GridRes

Cells == Idx \X Idx

\* np.linspace(lo, hi, n)[k-1], rounded down to a millidegree
Linspace(lo, hi, n, k) ==
    IF n = 1 THEN lo ELSE lo + ((k - 1) * (hi - lo)) \div (n - 1)

Lats == [k \in Idx |-> Linspace(South, North, GridRes, k)]

Lons == [k \in Idx |-> Linspace(West, East, GridRes, k)]

\* squared distance in millidegrees^2 of a cell from a point
Dist2(c, plat, plon) ==
    (Lats[c[1]] - plat) * (Lats[c[1]] - plat)
        + (Lons[c[2]] - plon) * (Lons[c[2]] - plon)

(* ------------------------------ geometry ------------------------------- *)
\* borough_bounds: (min_lat, max_lat, min_lon, max_lon)
borough_bounds ==
    [b \in {"Manhattan", "Brooklyn", "Queens", "Bronx", "Staten Island"} |->
        CASE b = "Manhattan"     -> <<40700, 40880, -74019, -73907>>
          [] b = "Brooklyn"      -> <<40570, 40740, -74042, -73833>>
          [] b = "Queens"        -> <<40540, 40800, -73962, -73700>>
          [] b = "Bronx"         -> <<40785, 40920, -73933, -73765>>
          [] b = "Staten Island" -> <<40495, 40651, -74255, -74053>>]

InRect(r, lat, lon) ==
    r[1] <= lat /\ lat <= r[2] /\ r[3] <= lon /\ lon <= r[4]

\* The rows of the loaded boundary file: a name and a geometry.  A geometry
\* is a box whose contains() holds for interior points only (shapely).
BoundaryRows ==
    << [boro_name |-> "Manhattan",     geometry |-> <<40700, 40880, -74019, -73907>>],
       [boro_name |-> "Bronx",         geometry |-> <<40785, 40920, -73933, -73765>>],
       [boro_name |-> "Brooklyn",      geometry |-> <<40570, 40740, -74042, -73833>>],
       [boro_name |-> "Queens",        geometry |-> <<40540, 40800, -73962, -73700>>],
       [boro_name |-> "Staten Island", geometry |-> <<40495, 40651, -74255, -74053>>] >>

GeometryContains(g, lat, lon) ==
    g[1] < lat /\ lat < g[2] /\ g[3] < lon /\ lon < g[4]

\* str.lower(), as the sequence of the characters of the result
Lower(s) ==
    CASE s \in {"Manhattan", "manhattan", "MANHATTAN"} ->
              <<"m", "a", "n", "h", "a", "t", "t", "a", "n">>
      [] s = "Bronx"         -> <<"b", "r", "o", "n", "x">>
      [] s = "Brooklyn"      -> <<"b", "r", "o", "o", "k", "l", "y", "n">>
      [] s = "Queens"        -> <<"q", "u", "e", "e", "n", "s">>
      [] s = "Staten Island" ->
              <<"s", "t", "a", "t", "e", "n", " ", "i", "s", "l", "a", "n", "d">>
      [] s = "Staten"        -> <<"s", "t", "a", "t", "e", "n">>
      [] s \in {"citywide", "Citywide", "CITYWIDE"} ->
              <<"c", "i", "t", "y", "w", "i", "d", "e">>
      [] s \in {"all", "ALL", "All"} -> <<"a", "l", "l">>
      [] s = "Unknown"       -> <<"u", "n", "k", "n", "o", "w", "n">>
      [] s = "TestZone"      -> <<"t", "e", "s", "t", "z", "o", "n", "e">>
      [] s = "JFK Airport"   ->
              <<"j", "f", "k", " ", "a", "i", "r", "p", "o", "r", "t">>
      [] s = ""              -> <<>>

\* a in b (substring test on strings)
IsSubstring(a, b) ==
    \E k \in 0..(Len(b) - Len(a)) :
        \A n \in 1..Len(a) : b[k + n] = a[n]

\* mutant: the label of a row is read as empty and matches every target
FirstMatchFirstRow(rows, k, target) == IF k > Len(rows) THEN 0 ELSE k

\* index of the first boundary row whose name matches the target, 0 if none
RECURSIVE FirstMatch(_, _, _)
FirstMatch(rows, k, target) ==
    IF k > Len(rows) THEN 0
    ELSE IF IsSubstring(Lower(target), Lower(rows[k].boro_name))
            \/ IsSubstring(Lower(rows[k].boro_name), Lower(target))
         THEN k
         ELSE FirstMatch(rows, k + 1, target)

\* nb is self.nyc_boundaries: <<>> for None, otherwise the rows loaded
_is_in_nyc_boundaries(nb, geopandas, lat, lon) ==
    IF nb # <<>> /\ geopandas
    THEN \E k \in 1..Len(nb) : GeometryContains(nb[k].geometry, lat, lon)
    ELSE \E b \in DOMAIN borough_bounds : InRect(borough_bounds[b], lat, lon)

\* mutant: the whole-territory names are compared without lower()
_is_in_target_area_case_sensitive(nb, geopandas, lat, lon, target) ==
    IF target = "citywide" \/ target = "all"
    THEN TRUE
    ELSE IF nb # <<>> /\ geopandas
    THEN LET k == FirstMatch(nb, 1, target)
         IN  IF k = 0 THEN FALSE
             ELSE GeometryContains(nb[k].geometry, lat, lon)
    ELSE IF target \in DOMAIN borough_bounds
    THEN InRect(borough_bounds[target], lat, lon)
    ELSE TRUE

_is_in_target_area(nb, geopandas, lat, lon, target) ==
    IF Lower(target) = Lower("citywide") \/ Lower(target) = Lower("all")
    THEN TRUE
    ELSE IF nb # <<>> /\ geopandas
    THEN LET k == FirstMatch(nb, 1, target)
         IN  IF k = 0 THEN FALSE
             ELSE GeometryContains(nb[k].geometry, lat, lon)
    ELSE IF target \in DOMAIN borough_bounds
    THEN InRect(borough_bounds[target], lat, lon)
    ELSE TRUE

(* ------------------------- intervention records ------------------------ *)
\* dict.get(key, default): a record carries the set of the keys it has
Get(d, key, default) == IF key \in d.present THEN d[key] ELSE default

Mod(present, type, area, change_percent, lat, lon, radius_km) ==
    [present |-> present, type |-> type, area |-> area,
     change_percent |-> change_percent, lat |-> lat, lon |-> lon,
     radius_km |-> radius_km]

(* --------------------------- the rule kernels -------------------------- *)
\* mutant: the test is made on squares alone and forgets the sign of the radius
WithinRadiusSquared(d2, radius_km) ==
    d2 <= (radius_km * radius_km - 1) \div (KmPerDegree * KmPerDegree)

\* radius_deg = radius_km / 111.0 and the test distance < radius_deg, on
\* squared quantities: 111^2 * d2 < radius_m^2, for a positive radius only
WithinRadius(d2, radius_km) ==
    /\ radius_km > 0
    /\ d2 <= (radius_km * radius_km - 1) \div (KmPerDegree * KmPerDegree)

\* mutant: no falloff, the full change everywhere inside the radius
GaussianIntensityFlat(d2, radius_km) == ExpNeg(0)

\* intensity = np.exp(-distance**2 / (2 * (radius_deg/2.0)**2)), scale 10^6
GaussianIntensity(d2, radius_km) ==
    IF d2 = 0 THEN ExpNeg(0)
    ELSE ExpNeg((2000 * d2)
                  \div ((radius_km * radius_km) \div (KmPerDegree * KmPerDegree)))

\* max(0.01, reduction_factor)
FlooredFactor(reduction_factor) == Max(FloorFactor, reduction_factor)

\* mutant: the change is applied with the wrong sign
HotspotFactorWrongSign(d2, radius_km, change_percent) ==
    FlooredFactor(FS - (change_percent * GaussianIntensity(d2, radius_km)) \div 100)

\* the hotspot branch for one cell: reduction_factor = 1 + cp * intensity
HotspotFactor(d2, radius_km, change_percent) ==
    FlooredFactor(FS + (change_percent * GaussianIntensity(d2, radius_km)) \div 100)

\* mutant: the percentage is taken as a reduction whatever its sign
UniformFactorAbs(change_percent) ==
    FlooredFactor(FS - Abs(change_percent) * (FS \div 100))

\* the borough and baseline branches: reduction_factor = 1 + cp
UniformFactor(change_percent) ==
    FlooredFactor(FS + change_percent * (FS \div 100))

\* mutant: the chain ends in an else branch that treats every other rule as
\* a rule for the whole territory
ModAffectsElse(mod, c, base, nb, geopandas) ==
    LET mod_type == Get(mod, "type", "None")
    IN  CASE mod_type = "hotspot" ->
               WithinRadius(Dist2(c, mod.lat, mod.lon),
                            Get(mod, "radius_km", DefaultRadiusKm))
          [] mod_type = "borough" ->
               _is_in_target_area(nb, geopandas, Lats[c[1]], Lons[c[2]],
                                  Get(mod, "area", "Unknown"))
          [] mod_type = "baseline" -> base[c] < LowEmissionThreshold
          [] OTHER -> TRUE

\* does the rule multiply cell c?  base is the array baseline_emissions
ModAffects(mod, c, base, nb, geopandas) ==
    LET mod_type == Get(mod, "type", "None")
    IN  CASE mod_type = "hotspot" ->
               WithinRadius(Dist2(c, mod.lat, mod.lon),
                            Get(mod, "radius_km", DefaultRadiusKm))
          [] mod_type = "borough" ->
               _is_in_target_area(nb, geopandas, Lats[c[1]], Lons[c[2]],
                                  Get(mod, "area", "Unknown"))
          [] mod_type = "baseline" -> base[c] < LowEmissionThreshold
          [] OTHER -> FALSE

ModFactor(mod, c) ==
    LET change_percent == Get(mod, "change_percent", DefaultChangePercent)
    IN  IF Get(mod, "type", "None") = "hotspot"
        THEN HotspotFactor(Dist2(c, mod.lat, mod.lon),
                           Get(mod, "radius_km", DefaultRadiusKm), change_percent)
        ELSE UniformFactor(change_percent)

\* lat - None / lon - None in the hotspot loop raises TypeError
ModRaises(mod) ==
    /\ Get(mod, "type", "None") = "hotspot"
    /\ ("lat" \notin mod.present \/ "lon" \notin mod.present)

\* mutant: no copy is taken, the working array is the cached array itself
ArrayCopyAliased(ref) == ref

\* numpy .copy(): the result is a new array object, not the cached one
ArrayCopy(ref) == "copy"

\* mutant: each rule overwrites with baseline x factor instead of compounding
ApplyModOverwrite(heap, target, mod, nb, geopandas) ==
    [heap EXCEPT ![target] =
        [c \in Cells |->
            IF ModAffects(mod, c, heap["cache"], nb, geopandas)
            THEN MulDiv(heap["cache"][c], ModFactor(mod, c))
            ELSE heap[target][c]]]

\* mutant: the floor rule is judged on the value left by earlier rules
ApplyModOnCurrent(heap, target, mod, nb, geopandas) ==
    [heap EXCEPT ![target] =
        [c \in Cells |->
            IF ModAffects(mod, c, heap[target], nb, geopandas)
            THEN MulDiv(heap[target][c], ModFactor(mod, c))
            ELSE heap[target][c]]]

\* mutant: a rule leaves alone the cells an earlier rule has changed
ApplyModUntouched(heap, target, mod, nb, geopandas) ==
    [heap EXCEPT ![target] =
        [c \in Cells |->
            IF /\ ModAffects(mod, c, heap["cache"], nb, geopandas)
               /\ heap[target][c] = heap["cache"][c]
            THEN MulDiv(heap[target][c], ModFactor(mod, c))
            ELSE heap[target][c]]]

\* one pass of the modification loop over the array named by target
ApplyMod(heap, target, mod, nb, geopandas) ==
    [heap EXCEPT ![target] =
        [c \in Cells |->
            IF ModAffects(mod, c, heap["cache"], nb, geopandas)
            THEN MulDiv(heap[target][c], ModFactor(mod, c))
            ELSE heap[target][c]]]

\* for mod in geographic_modifications, from index k on
RECURSIVE ApplyMods(_, _, _, _, _, _)
ApplyMods(heap, target, mods, k, nb, geopandas) ==
    IF k > Len(mods) THEN [raised |-> FALSE, heap |-> heap]
    ELSE IF ModRaises(mods[k]) THEN [raised |-> TRUE, heap |-> heap]
    ELSE ApplyMods(ApplyMod(heap, target, mods[k], nb, geopandas),
                   target, mods, k + 1, nb, geopandas)

\* variation = 1.0 + (pattern_intensity - 0.5) * 0.2, weight in tenths
Variation(pattern_intensity) == FS + (pattern_intensity - 5) * (FS \div 50)

ApplyPatternPoint(heap, target, pt) ==
    [heap EXCEPT ![target] =
        [c \in Cells |->
            IF Dist2(c, pt[1], pt[2]) < PatternRadius * PatternRadius
            THEN MulDiv(heap[target][c], Variation(pt[3]))
            ELSE heap[target][c]]]

RECURSIVE ApplyPattern(_, _, _, _)
ApplyPattern(heap, target, pattern, k) ==
    IF k > Len(pattern) THEN heap
    ELSE ApplyPattern(ApplyPatternPoint(heap, target, pattern[k]),
                      target, pattern, k + 1)

(* --------------------------- the grid accessor ------------------------- *)
\* the cells in the order of the nested loops (i outer, j inner)
CellSeq == [n \in 1..(GridRes * GridRes) |->
               <<((n - 1) \div GridRes) + 1, ((n - 1) % GridRes) + 1>>]

InsideCell(nb, geopandas, c) ==
    _is_in_nyc_boundaries(nb, geopandas, Lats[c[1]], Lons[c[2]])

\* mutant: a cell outside the boundaries is kept with the value zero
RECURSIVE ToPointsZeroed(_, _, _, _)
ToPointsZeroed(grid, nb, geopandas, n) ==
    IF n > Len(CellSeq) THEN <<>>
    ELSE LET c == CellSeq[n]
         IN  <<<<Lats[c[1]], Lons[c[2]],
                 IF InsideCell(nb, geopandas, c) THEN grid[c] ELSE 0>>>>
                 \o ToPointsZeroed(grid, nb, geopandas, n + 1)

\* the filtering loop of get_baseline_grid and apply_intervention
RECURSIVE ToPoints(_, _, _, _)
ToPoints(grid, nb, geopandas, n) ==
    IF n > Len(CellSeq) THEN <<>>
    ELSE LET c == CellSeq[n]
             rest == ToPoints(grid, nb, geopandas, n + 1)
         IN  IF InsideCell(nb, geopandas, c)
             THEN <<<<Lats[c[1]], Lons[c[2]], grid[c]>>>> \o rest
             ELSE rest

(* ------------------------------- inputs -------------------------------- *)
AllFields == {"type", "change_percent", "area", "lat", "lon", "radius_km"}

CentreLat == Lats[(GridRes + 1) \div 2]

CentreLon == Lons[(GridRes + 1) \div 2]

Hotspot(cp, lat, lon, radius_km) ==
    Mod(AllFields \ {"area"}, "hotspot", "", cp, lat, lon, radius_km)

Borough(area, cp) ==
    Mod({"type", "area", "change_percent"}, "borough", area, cp, 0, 0, 0)

Baseline(cp) ==
    Mod({"type", "area", "change_percent"}, "baseline", "citywide", cp, 0, 0, 0)

\* rules that are combined freely into lists
CoreMods ==
    { Hotspot(-20, CentreLat, CentreLon, 22200),
      Borough("Manhattan", -20),
      Baseline(-50),
      Hotspot(-50, CentreLat, CentreLon, 0) }

\* rules explored on their own
ExtraMods ==
    { Hotspot(-50, CentreLat, CentreLon, 39000),
      Hotspot(-50, CentreLat, CentreLon, 12000),
      Hotspot(-200, CentreLat, CentreLon, 39000),
      Hotspot(30, 40641, -73778, 11100),
      Hotspot(-50, CentreLat, CentreLon, -5000),
      Borough("Staten Island", -30),
      Borough("manhattan", -15),
      Borough("TestZone", -30),
      Mod({"type", "area", "change_percent"}, "region", "Manhattan", -30, 0, 0, 0),
      \* rules with a required field missing
      Mod({"type", "change_percent", "lat", "lon"}, "hotspot", "", -50,
          CentreLat, CentreLon, 0),
      Mod({"type", "change_percent", "lon", "radius_km"}, "hotspot", "", -50,
          0, CentreLon, 22200),
      Mod({"type", "change_percent"}, "borough", "", -30, 0, 0, 0),
      Mod({"type"}, "baseline", "", 0, 0, 0, 0),
      Mod({"area", "change_percent"}, "", "Manhattan", -30, 0, 0, 0) }

RECURSIVE SeqsUpTo(_, _)
SeqsUpTo(S, n) ==
    IF n = 0 THEN {<<>>}
    ELSE LET shorter == SeqsUpTo(S, n - 1)
         IN  shorter \cup {Append(q, m) : q \in shorter, m \in S}

\* lists explored besides: two citywide rules that both hit the 0.01 floor
ExtraLists ==
    { <<Borough("citywide", -100)>>,
      <<Borough("citywide", -100), Borough("ALL", -100)>>,
      <<Hotspot(-50, CentreLat, CentreLon, -5000), Borough("Manhattan", -20)>>,
      <<Borough("Queens", 25)>>,
      \* rules of a type the loop has no branch for, among rules it handles
      <<Mod({"type", "area", "change_percent"}, "region", "Manhattan", -30, 0, 0, 0),
        Borough("Manhattan", -20)>>,
      <<Baseline(-50),
        Mod({"area", "change_percent"}, "", "Manhattan", -30, 0, 0, 0)>> }

ModLists ==
    SeqsUpTo(CoreMods, MaxMods) \cup {<<m>> : m \in ExtraMods} \cup ExtraLists

\* overlay lists of (lat, lon, weight in tenths)
Patterns ==
    { << <<CentreLat + 15, CentreLon - 10, 10>> >>,
      << <<CentreLat + 15, CentreLon - 10, 10>>, <<CentreLat - 5, CentreLon - 5, 8>> >>,
      << <<CentreLat + 15, CentreLon - 10, -45>> >> }

NoRealEmissions == <<>>

Intervention(present, u, ml, sp) ==
    [present |-> present, is_unrelated |-> u, geographic_modifications |-> ml,
     spatial_pattern |-> sp, real_emissions |-> NoRealEmissions]

Interventions ==
    \* interventions without an overlay
    { Intervention({"is_unrelated", "geographic_modifications"}, FALSE, ml, <<>>) :
        ml \in ModLists }
    \cup
    \* every list with the first overlay, the short lists with every overlay
    { Intervention({"is_unrelated", "geographic_modifications", "spatial_pattern"},
                   FALSE, ml, sp) :
        ml \in ModLists, sp \in {<< <<CentreLat + 15, CentreLon - 10, 10>> >>} }
    \cup
    { Intervention({"is_unrelated", "geographic_modifications", "spatial_pattern"},
                   FALSE, ml, sp) :
        ml \in {<<>>, <<Borough("Manhattan", -20)>>}, sp \in Patterns }
    \cup
    \* unrelated prompts, with and without rules and an overlay
    { Intervention({"is_unrelated", "geographic_modifications", "spatial_pattern"},
                   TRUE, ml, sp) :
        ml \in {<<>>, <<Borough("Manhattan", -20), Baseline(-50)>>},
        sp \in {<<>>, << <<CentreLat + 15, CentreLon - 10, 10>> >>} }
    \cup
    \* a dict with none of the optional keys
    { Intervention({}, FALSE, <<>>, <<>>) }

\* grids the synthesis can leave in the cache (real-data path floors at 5)
BaselineGrids ==
    { [c \in Cells |-> 100 * VS],
      [c \in Cells |-> CASE (c[1] + 2 * c[2]) % 4 = 0 -> 20 * VS
                         [] (c[1] + 2 * c[2]) % 4 = 1 -> 24 * VS
                         [] (c[1] + 2 * c[2]) % 4 = 2 -> 5 * VS
                         [] OTHER -> 150 * VS] }

Measurements == { <<>>, << [lat |-> 40713, lon |-> -74006, value |-> 12] >> }

(* ------------------------- baseline synthesis -------------------------- *)
(* The constructor's grid has SynthRes points per side in the construction *)
(* runs.  Hotspot and borough centres are given to 1e-4 degree, so         *)
(* distances to them are taken in units of 1e-4 degree.                    *)
SynthIdx == 1..SynthRes

SynthCells == SynthIdx \X SynthIdx

SynthLats == [k \in SynthIdx |-> Linspace(South, North, SynthRes, k)]

SynthLons == [k \in SynthIdx |-> Linspace(West, East, SynthRes, k)]

\* floor(sqrt(n)) by bisection
RECURSIVE ISqrtBetween(_, _, _)
ISqrtBetween(n, lo, hi) ==
    IF lo >= hi THEN lo
    ELSE LET mid == (lo + hi + 1) \div 2
         IN  IF mid * mid <= n THEN ISqrtBetween(n, mid, hi)
             ELSE ISqrtBetween(n, lo, mid - 1)

\* np.sqrt of a non-negative integer, rounded down
ISqrt(n) == ISqrtBetween(n, 0, Min(n, 46340))

\* np.exp(-x) for any x = xs/1000 >= 0, at scale 10^6
RECURSIVE ExpNegWide(_)
ExpNegWide(xs) ==
    IF xs <= 2000 THEN ExpNeg(xs)
    ELSE MulDiv(ExpNegWide(xs \div 2), ExpNegWide(xs - xs \div 2))

\* the airports table: coordinates in 1e-4 degree
airports ==
    << [name |-> "JFK", lat |-> 406413, lon |-> -737781,
        peak_density_tonne_km2_day |-> 1800],
       [name |-> "LaGuardia", lat |-> 407769, lon |-> -738740,
        peak_density_tonne_km2_day |-> 1200] >>

\* the Manhattan hotspots table of the real-data path
hotspots ==
    << [name |-> "Midtown/Times Square", lat |-> 407580, lon |-> -739855,
        emissions_tonne_km2_day |-> 164, radius |-> 3],
       [name |-> "Financial District", lat |-> 407074, lon |-> -740113,
        emissions_tonne_km2_day |-> 146, radius |-> 2],
       [name |-> "Upper West Side", lat |-> 407870, lon |-> -739754,
        emissions_tonne_km2_day |-> 129, radius |-> 2] >>

\* BOROUGHS: centre in 1e-4 degree, intensity in tenths
BOROUGHS ==
    << [name |-> "Manhattan",     center |-> <<407831, -739712>>, intensity |-> 15],
       [name |-> "Brooklyn",      center |-> <<406782, -739442>>, intensity |-> 12],
       [name |-> "Queens",        center |-> <<407282, -737949>>, intensity |-> 10],
       [name |-> "Bronx",         center |-> <<408448, -738648>>, intensity |-> 11],
       [name |-> "Staten Island", center |-> <<405795, -741502>>, intensity |-> 7] >>

\* i = int((lat - south) / lat_step) with lat_step = (north - south) /
\* grid_resolution, as a 1-based index
\* int((x - lo) / step) + 1 with step = (hi - lo) / n, x in 1e-4 degree
KernelIndex(x, lo, hi, n) == ((x - lo * 10) * n) \div ((hi - lo) * 10) + 1

LatIndex(lat) == KernelIndex(lat, South, North, SynthRes)

LonIndex(lon) == KernelIndex(lon, West, East, SynthRes)

\* squared cell distance of cell c from the cell of a table entry
CellDist2(s, c) ==
    (c[1] - LatIndex(s.lat)) * (c[1] - LatIndex(s.lat))
        + (c[2] - LonIndex(s.lon)) * (c[2] - LonIndex(s.lon))

\* the cell of the entry is on the grid and c is in the disc around it
Reaches(s, c, radius) ==
    /\ LatIndex(s.lat) \in SynthIdx /\ LonIndex(s.lon) \in SynthIdx
    /\ CellDist2(s, c) <= radius * radius

\* peak_density * exp(-distance**2 / (2 * (radius_cells/3.0)**2))
AirportContribution(a, c) ==
    IF Reaches(a, c, RadiusCells)
    THEN (a.peak_density_tonne_km2_day
            * ExpNegWide((9000 * CellDist2(a, c))
                            \div (2 * RadiusCells * RadiusCells))) \div 100
    ELSE 0

\* emissions * (1.0 - distance / (radius + 1))
HotspotContribution(h, c) ==
    IF Reaches(h, c, h.radius)
    THEN (h.emissions_tonne_km2_day
            * (FS - (ISqrt(CellDist2(h, c) * FS) * 1000) \div (h.radius + 1)))
         \div 100
    ELSE 0

\* mutant: overlapping sources are combined by maximum
AccumulateMax(old, contribution) == Max(old, contribution)

\* emissions_grid[ni, nj] += contribution
Accumulate(old, contribution) == old + contribution

\* for airport in airports, from index k on
RECURSIVE AirportLayer(_, _)
AirportLayer(grid, k) ==
    IF k > Len(airports) THEN grid
    ELSE AirportLayer(
             [c \in SynthCells |->
                 IF Reaches(airports[k], c, RadiusCells)
                 THEN Accumulate(grid[c], AirportContribution(airports[k], c))
                 ELSE grid[c]],
             k + 1)

\* for hotspot in hotspots, from index k on
RECURSIVE HotspotLayer(_, _)
HotspotLayer(grid, k) ==
    IF k > Len(hotspots) THEN grid
    ELSE HotspotLayer(
             [c \in SynthCells |->
                 IF Reaches(hotspots[k], c, hotspots[k].radius)
                 THEN Accumulate(grid[c], HotspotContribution(hotspots[k], c))
                 ELSE grid[c]],
             k + 1)

\* squared distance in (1e-4 degree)^2 of a point in millidegrees from a
\* point in 1e-4 degree
PointDist2(lat, lon, plat, plon) ==
    (lat * 10 - plat) * (lat * 10 - plat) + (lon * 10 - plon) * (lon * 10 - plon)

\* one borough's term of the inverse distance weighting; the three bands
\* use the coefficients close, near and far
BoroughContribution(b, lat, lon, close, near, far) ==
    LET d2 == PointDist2(lat, lon, b.center[1], b.center[2])
    IN  IF d2 < 500 * 500 THEN b.intensity * close * (VS \div 10)
        ELSE IF d2 < 1500 * 1500
        THEN (b.intensity * near * FS) \div (ISqrt(d2) + 1000)
        ELSE (b.intensity * far * FS) \div (2 * ISqrt(d2) + 1000)

RECURSIVE BoroughIntensity(_, _, _, _, _, _)
BoroughIntensity(k, lat, lon, close, near, far) ==
    IF k > Len(BOROUGHS) THEN 0
    ELSE BoroughContribution(BOROUGHS[k], lat, lon, close, near, far)
         + BoroughIntensity(k + 1, lat, lon, close, near, far)

_calculate_baseline_urban_emission(lat, lon) ==
    29 * VS + BoroughIntensity(1, lat, lon, 47, 29, 18)

_is_over_water(lat, lon) ==
    \/ lon < -74020 /\ 40700 < lat /\ lat < 40880
    \/ -73980 < lon /\ lon < -73930 /\ 40700 < lat /\ lat < 40800
    \/ lat < 40620 /\ -74050 < lon /\ lon < -74000

\* if emissions_grid[i, j] < 1000: ... = max(emissions_grid[i, j], base)
AmbientLayer(grid) ==
    [c \in SynthCells |->
        IF grid[c] < 1000 * VS
        THEN Max(grid[c],
                 _calculate_baseline_urban_emission(SynthLats[c[1]], SynthLons[c[2]]))
        ELSE grid[c]]

\* max(5, emissions_grid[i, j] * 0.05)
WaterOverride(v) == Max(5 * VS, (v * 5) \div 100)

WaterLayer(grid) ==
    [c \in SynthCells |->
        IF _is_over_water(SynthLats[c[1]], SynthLons[c[2]])
        THEN WaterOverride(grid[c])
        ELSE grid[c]]

\* np.maximum(emissions_grid, 5)
FloorLayer(grid) == [c \in SynthCells |-> Max(grid[c], 5 * VS)]

\* mutant: the water override is made before the ambient layer
LayerOrderWaterFirst == <<"airports", "hotspots", "water", "ambient", "floor">>

\* the statements of _generate_from_real_data in their order
LayerOrder == <<"airports", "hotspots", "ambient", "water", "floor">>

ApplyLayer(name, grid) ==
    CASE name = "airports" -> AirportLayer(grid, 1)
      [] name = "hotspots" -> HotspotLayer(grid, 1)
      [] name = "ambient"  -> AmbientLayer(grid)
      [] name = "water"    -> WaterLayer(grid)
      [] name = "floor"    -> FloorLayer(grid)

\* the (lat, lon, intensity) table of _calculate_emission_at_point
synthetic_hotspots ==
    << <<406413, -737781, 1000>>, <<407769, -738740, 750>>,
       <<407580, -739855, 125>> >>

\* spot_intensity * np.exp(-distance**2 / 0.001) if distance < 0.05
RECURSIVE SpotIntensity(_, _, _)
SpotIntensity(k, lat, lon) ==
    IF k > Len(synthetic_hotspots) THEN 0
    ELSE LET s == synthetic_hotspots[k]
             d2 == PointDist2(lat, lon, s[1], s[2])
         IN  (IF d2 < 500 * 500
              THEN (s[3] * ExpNegWide(d2 \div 100)) \div 100
              ELSE 0)
             + SpotIntensity(k + 1, lat, lon)

_calculate_emission_at_point(lat, lon) ==
    LET total_intensity == BoroughIntensity(1, lat, lon, 75, 50, 25)
                               + SpotIntensity(1, lat, lon)
    IN  IF _is_over_water(lat, lon)
        THEN 5 * VS + total_intensity \div 10
        ELSE 50 * VS + total_intensity

\* outcomes of np.random.normal(0, 5, shape) explored, in value units
NoiseFields ==
    { [c \in SynthCells |-> 0],
      [c \in SynthCells |-> (((c[1] + c[2]) % 3) - 1) * 15 * VS],
      [c \in SynthCells |-> (((2 * c[1] + c[2]) % 5) - 2) * 2 * VS] }

\* np.maximum(emissions_grid, 0)
ClampNoise(v) == Max(v, 0)

\* the grid before the sensor step: point values plus noise, clamped
SyntheticGrid(noise) ==
    [c \in SynthCells |->
        ClampNoise(_calculate_emission_at_point(SynthLats[c[1]], SynthLons[c[2]])
                      + noise[c])]

\* np.argmin(np.abs(xs - x)): the first index of the smallest distance
ArgMin(xs, x) ==
    CHOOSE k \in DOMAIN xs :
        \A j \in DOMAIN xs :
            /\ Abs(xs[k] - x) <= Abs(xs[j] - x)
            /\ j < k => Abs(xs[j] - x) > Abs(xs[k] - x)

\* weight = np.exp(-distance**2 / 2) for a squared cell distance
KernelWeight(d2) == ExpNegWide(500 * d2)

\* mutant: a normalised average, the old value keeps 1 - 0.3 * weight
BlendCellNormalised(old, value, d2) ==
    MulDiv(old, FS - (3 * KernelWeight(d2)) \div 10)
        + MulDiv(value * 75, KernelWeight(d2)) \div 10

\* grid[i, j] * 0.7 + emission_proxy * 0.3 * weight, with
\* emission_proxy = pm25_value * 0.0025
BlendCell(old, value, d2) ==
    MulDiv(old, 700000) + MulDiv(value * 75, KernelWeight(d2)) \div 10

\* the update of the whole grid for one station
BlendStation(grid, station) ==
    LET lat_idx == ArgMin(SynthLats, station.lat)
        lon_idx == ArgMin(SynthLons, station.lon)
    IN  [c \in SynthCells |->
            IF Abs(c[1] - lat_idx) <= 2 /\ Abs(c[2] - lon_idx) <= 2
            THEN BlendCell(grid[c], station.value,
                           (c[1] - lat_idx) * (c[1] - lat_idx)
                               + (c[2] - lon_idx) * (c[2] - lon_idx))
            ELSE grid[c]]

\* for station in openaq_data, from index k on
RECURSIVE _blend_openaq_data(_, _, _)
_blend_openaq_data(grid, openaq_data, k) ==
    IF k > Len(openaq_data) THEN grid
    ELSE _blend_openaq_data(BlendStation(grid, openaq_data[k]), openaq_data, k + 1)

\* what the requests of fetch_openaq_data can do
RequestOutcomes == {"ok", "timeout", "http_error", "malformed"}

\* station lists a successful request yields during construction
SensorLists ==
    { <<>>,
      << [lat |-> 40713, lon |-> -74006, value |-> 12] >>,
      << [lat |-> 40713, lon |-> -74006, value |-> 12],
         [lat |-> 40760, lon |-> -73950, value |-> 40000] >>,
      << [lat |-> 40550, lon |-> -74180, value |-> -100000] >> }

\* the requests a call of fetch_openaq_data sends on a cache miss: v3 when
\* the key is set, then v2 unless v3 answered
Requests(api_key, v3, v2) ==
    (IF api_key THEN << [endpoint |-> "v3", outcome |-> v3] >> ELSE <<>>)
        \o (IF api_key /\ v3 = "ok" THEN <<>>
            ELSE << [endpoint |-> "v2", outcome |-> v2] >>)

\* mutant: the v2 request is made outside a try block
FetchOutcomeUnguarded(api_key, v3, v2, m) ==
    IF api_key /\ v3 = "ok"
    THEN [raised |-> FALSE, returned |-> m, openaq_cache |-> <<m>>]
    ELSE IF v2 = "ok"
    THEN [raised |-> FALSE, returned |-> m, openaq_cache |-> <<m>>]
    ELSE [raised |-> TRUE, returned |-> <<>>, openaq_cache |-> <<>>]

\* fetch_openaq_data on a cache miss: the list returned and the list cached
\* (<<>> for a cache left at None).  The v3 requests run in a try block
\* when the key is set, the v2 request in a second one.
FetchOutcome(api_key, v3, v2, m) ==
    IF api_key /\ v3 = "ok"
    THEN [raised |-> FALSE, returned |-> m, openaq_cache |-> <<m>>]
    ELSE IF v2 = "ok"
    THEN [raised |-> FALSE, returned |-> m, openaq_cache |-> <<m>>]
    ELSE [raised |-> FALSE, returned |-> <<>>, openaq_cache |-> <<>>]

\* what the boundary load leaves in self.nyc_boundaries
LoadOutcomes == {"no_file", "read_error", "convert_error", "union_error", "loaded"}

\* mutant: a failure after read_file leaves the rows that were read
LoadedBoundariesKept(outcome) ==
    IF outcome \in {"loaded", "convert_error", "union_error"}
    THEN BoundaryRows ELSE <<>>

\* _load_nyc_boundaries with geopandas present
LoadedBoundaries(outcome) ==
    IF outcome = "loaded" THEN BoundaryRows ELSE <<>>

(* -------------------------------- state -------------------------------- *)
VARIABLES
    baseline_cache,        \* (lats, lons, emissions_grid)
    last_update,           \* <<>> for None, <<t>> for a datetime
    openaq_cache,          \* <<>> for None, <<list>> for a list
    nyc_boundaries,        \* <<>> for None, else the loaded rows
    GEOPANDAS_AVAILABLE,   \* the module flag set at import
    now,                   \* the clock, in minutes
    pc,                    \* "idle", or "responded" while a result is held
    op,                    \* the operation that ran last
    intervention,          \* the dict handed to apply_intervention, <<>> if none
    modified_emissions,    \* apply_intervention's working array at its end
    response,              \* what the last operation returned
    nyc_boundary_union,    \* <<>> while the attribute is not set, else the rows
    data_loader,           \* whether self.data_loader is set
    emissions_grid,        \* the working array of the running synthesis
    layer,                 \* how many steps of the running synthesis are done
    probe,                 \* the last geometry call and its result, <<>> if none
    requests,              \* the network requests the running call has sent
    fetched_at,            \* history: the clock at the last request that
                           \* succeeded, <<>> if none
    syntheses,             \* how many calls of _generate_baseline have started
    seen,                  \* what a concurrent reader last took from
                           \* baseline_cache, <<>> if none
    loader_cache,          \* NYCDataLoader.cache, <<>> before the loader exists
    sector_result          \* the last call of get_emissions_for_sector and
                           \* its result, <<>> if none

vars == <<baseline_cache, last_update, openaq_cache, nyc_boundaries,
          GEOPANDAS_AVAILABLE, now, pc, op, intervention,
          modified_emissions, response, nyc_boundary_union, data_loader,
          emissions_grid, layer, probe, requests, fetched_at, syntheses, seen,
          loader_cache, sector_result>>

cache_vars == <<baseline_cache, last_update, openaq_cache>>

\* what only the constructor and the geometry calls write
ctor_vars == <<nyc_boundary_union, data_loader, emissions_grid, layer, probe>>

\* what only the sensor fetch writes
net_vars == <<requests, fetched_at>>

\* what only a further synthesis and its concurrent readers write
regen_vars == <<syntheses, seen>>

\* what only the reference data loader writes
loader_vars == <<loader_cache, sector_result>>

NoResponse == [status |-> "none", points |-> <<>>, stations |-> <<>>, time |-> 0]

NoGrid == [c \in Cells |-> 0]

Init ==
    /\ \E g \in BaselineGrids :
          baseline_cache = [lats |-> Lats, lons |-> Lons, emissions |-> g]
    /\ last_update = <<0>>
    /\ openaq_cache = <<>>
    /\ \E loaded \in {"no_library", "no_file", "loaded"} :
          /\ GEOPANDAS_AVAILABLE = (loaded # "no_library")
          /\ nyc_boundaries = IF loaded = "loaded" THEN BoundaryRows ELSE <<>>
          /\ nyc_boundary_union = IF loaded = "loaded" THEN BoundaryRows ELSE <<>>
    /\ data_loader = TRUE
    /\ emissions_grid = <<>>
    /\ layer = 0
    /\ probe = <<>>
    /\ requests = <<>>
    /\ fetched_at = <<>>
    /\ syntheses = 1
    /\ seen = <<>>
    /\ loader_cache = <<>>
    /\ sector_result = <<>>
    /\ now = 0
    /\ pc = "idle"
    /\ op = "init"
    /\ intervention = <<>>
    /\ modified_emissions = NoGrid
    /\ response = NoResponse

(* ------------------------------ operations ----------------------------- *)
ZeroRealEmissions ==
    << [baseline_tons_co2 |-> 0, reduced_tons_co2 |-> 0,
        annual_savings_tons_co2 |-> 0, percentage_reduction |-> 0,
        is_unrelated |-> TRUE] >>

\* mutant: the is_unrelated flag is not looked at
IsUnrelatedIgnored(iv) == FALSE

\* intervention.get('is_unrelated')
IsUnrelated(iv) == Get(iv, "is_unrelated", FALSE)

\* get_baseline_grid.  __init__ always leaves a grid in baseline_cache, so
\* the regeneration behind "if self.baseline_cache is None" does not run,
\* here or in apply_intervention.
GetBaselineGrid ==
    /\ pc = "idle"
    /\ response' = [NoResponse EXCEPT
                      !.status = "ok",
                      !.points = ToPoints(baseline_cache.emissions, nyc_boundaries,
                                          GEOPANDAS_AVAILABLE, 1)]
    /\ pc' = "responded"
    /\ op' = "get_baseline_grid"
    /\ UNCHANGED <<loader_vars, regen_vars, net_vars, cache_vars, nyc_boundaries, GEOPANDAS_AVAILABLE, now,
                   intervention, modified_emissions, ctor_vars>>

\* the body of apply_intervention: the heap after the call, the dict after
\* the call, and what was returned or raised
ApplyResult(iv, cache, nb, geopandas) ==
    LET heap0 == [o \in {"cache", "copy"} |-> cache.emissions]
        modified_ref == ArrayCopy("cache")
    IN  IF IsUnrelated(iv)
        THEN [heap |-> heap0, modified_ref |-> modified_ref,
              iv |-> [iv EXCEPT !.real_emissions = ZeroRealEmissions],
              status |-> "ok",
              points |-> ToPoints(heap0["cache"], nb, geopandas, 1)]
        ELSE LET r == ApplyMods(heap0, modified_ref,
                                Get(iv, "geographic_modifications", <<>>),
                                1, nb, geopandas)
                 h == IF r.raised \/ "spatial_pattern" \notin iv.present
                      THEN r.heap
                      ELSE ApplyPattern(r.heap, modified_ref, iv.spatial_pattern, 1)
             IN  [heap |-> h, modified_ref |-> modified_ref, iv |-> iv,
                  status |-> IF r.raised THEN "TypeError" ELSE "ok",
                  points |-> IF r.raised THEN <<>>
                             ELSE ToPoints(h[modified_ref], nb, geopandas, 1)]

ApplyIntervention(iv) ==
    /\ pc = "idle"
    /\ \E r \in {ApplyResult(iv, baseline_cache, nyc_boundaries, GEOPANDAS_AVAILABLE)} :
           /\ baseline_cache' = [baseline_cache EXCEPT !.emissions = r.heap["cache"]]
           /\ modified_emissions' = r.heap[r.modified_ref]
           /\ intervention' = <<r.iv>>
           /\ response' = [NoResponse EXCEPT !.status = r.status, !.points = r.points]
    /\ pc' = "responded"
    /\ op' = "apply_intervention"
    /\ UNCHANGED <<loader_vars, regen_vars, net_vars, last_update, openaq_cache, nyc_boundaries, GEOPANDAS_AVAILABLE,
                   now, ctor_vars>>

\* get_last_update_time
GetLastUpdateTime ==
    /\ pc = "idle"
    /\ response' = [NoResponse EXCEPT
                      !.status = "ok",
                      !.time = IF last_update # <<>> THEN last_update[1] ELSE now]
    /\ pc' = "responded"
    /\ op' = "get_last_update_time"
    /\ UNCHANGED <<loader_vars, regen_vars, net_vars, cache_vars, nyc_boundaries, GEOPANDAS_AVAILABLE, now,
                   intervention, modified_emissions, ctor_vars>>

\* the history of the fetches: the clock is noted when the last request of
\* the call succeeded
RecordFetch ==
    fetched_at' = IF requests' # <<>> /\ requests'[Len(requests')].outcome = "ok"
                  THEN <<now>>
                  ELSE fetched_at

\* fetch_openaq_data: api_key is whether OPENAQ_API_KEY is set, v3 and v2
\* are what the two endpoints do, m is what a successful request yields.
\* The history is left to the specification that calls it.
FetchOpenAQ(api_key, v3, v2, m) ==
    /\ pc = "idle"
    /\ IF /\ openaq_cache # <<>> /\ openaq_cache[1] # <<>>
          /\ last_update # <<>>
          /\ now - last_update[1] < CacheMinutes
       THEN /\ response' = [NoResponse EXCEPT !.status = "ok",
                                              !.stations = openaq_cache[1]]
            /\ UNCHANGED <<openaq_cache, requests>>
       ELSE IF (api_key /\ v3 = "ok") \/ v2 = "ok"
       THEN /\ openaq_cache' = <<m>>
            /\ response' = [NoResponse EXCEPT !.status = "ok", !.stations = m]
            /\ requests' = Requests(api_key, v3, v2)
       ELSE /\ response' = [NoResponse EXCEPT !.status = "ok"]
            /\ requests' = Requests(api_key, v3, v2)
            /\ UNCHANGED openaq_cache
    /\ pc' = "responded"
    /\ op' = "fetch_openaq_data"
    /\ UNCHANGED <<loader_vars, regen_vars, baseline_cache, last_update, nyc_boundaries, GEOPANDAS_AVAILABLE,
                   now, intervention, modified_emissions, ctor_vars>>

\* the endpoint hands the result to its client and the next request starts
SendResponse ==
    /\ pc = "responded"
    /\ pc' = "idle"
    /\ op' = "send_response"
    /\ intervention' = <<>>
    /\ modified_emissions' = NoGrid
    /\ response' = NoResponse
    /\ requests' = <<>>
    /\ UNCHANGED <<loader_vars, regen_vars, cache_vars, nyc_boundaries, GEOPANDAS_AVAILABLE, now, ctor_vars,
                   fetched_at>>

\* time passes between requests
Tick ==
    /\ pc = "idle"
    /\ now < MaxTime * TickMinutes
    /\ now' = now + TickMinutes
    /\ op' = "tick"
    /\ UNCHANGED <<loader_vars, regen_vars, net_vars, cache_vars, nyc_boundaries, GEOPANDAS_AVAILABLE, pc,
                   intervention, modified_emissions, response, ctor_vars>>

Next ==
    \/ GetBaselineGrid
    \/ \E iv \in Interventions : ApplyIntervention(iv)
    \/ GetLastUpdateTime
    \/ \E api_key \in BOOLEAN, v3 \in {"ok", "fail"}, v2 \in {"ok", "fail"},
          m \in Measurements :
              FetchOpenAQ(api_key, v3, v2, m) /\ UNCHANGED fetched_at
    \/ SendResponse
    \/ Tick

Spec == Init /\ [][Next]_vars

(* A third specification keeps the history of the fetches and follows the  *)
(* sensor cache over the clock.                                            *)
CacheNext ==
    \/ \E api_key \in BOOLEAN, v3 \in {"ok", "fail"}, v2 \in {"ok", "fail"},
          m \in Measurements :
              FetchOpenAQ(api_key, v3, v2, m) /\ RecordFetch
    \/ GetLastUpdateTime
    \/ SendResponse
    \/ Tick

CacheSpec == Init /\ [][CacheNext]_vars

(* --------------------------- the constructor --------------------------- *)
(* A second specification follows __init__ step by step on a grid of       *)
(* SynthRes points per side, and then calls the geometry tests.            *)
NoCache == [lats |-> <<>>, lons |-> <<>>, emissions |-> <<>>]

\* the points the geometry tests are called with: the grid points, and
\* points on the edge of a borough rectangle and beyond the bounding box
ProbePoints ==
    {<<SynthLats[c[1]], SynthLons[c[2]]>> : c \in SynthCells}
        \cup {<<40700, -74019>>, <<40790, -73960>>, <<40600, -74150>>,
              <<40400, -74300>>}

\* the area names the geometry tests are called with
Targets ==
    {"Manhattan", "Bronx", "Brooklyn", "Queens", "Staten Island",
     "manhattan", "MANHATTAN", "Staten", "TestZone",
     "citywide", "Citywide", "CITYWIDE", "all", "ALL", "All"}

\* __init__ up to line 85: every cache is None
CtorInit ==
    /\ baseline_cache = NoCache
    /\ last_update = <<>>
    /\ openaq_cache = <<>>
    /\ nyc_boundaries = <<>>
    /\ nyc_boundary_union = <<>>
    /\ GEOPANDAS_AVAILABLE \in BOOLEAN
    /\ data_loader = FALSE
    /\ emissions_grid = <<>>
    /\ layer = 0
    /\ probe = <<>>
    /\ requests = <<>>
    /\ fetched_at = <<>>
    /\ syntheses = 0
    /\ seen = <<>>
    /\ loader_cache = <<>>
    /\ sector_result = <<>>
    /\ now = 0
    /\ pc = "load_boundaries"
    /\ op = "init"
    /\ intervention = <<>>
    /\ modified_emissions = NoGrid
    /\ response = NoResponse

\* _load_nyc_boundaries: outcome is what the file system and geopandas do
LoadNycBoundaries(outcome) ==
    /\ pc = "load_boundaries"
    /\ IF GEOPANDAS_AVAILABLE
       THEN /\ nyc_boundaries' = LoadedBoundaries(outcome)
            /\ nyc_boundary_union' =
                  IF outcome = "loaded" THEN BoundaryRows ELSE <<>>
       ELSE UNCHANGED <<nyc_boundaries, nyc_boundary_union>>
    /\ pc' = "data_loader"
    /\ op' = "_load_nyc_boundaries"
    /\ UNCHANGED <<loader_vars, regen_vars, net_vars, cache_vars, GEOPANDAS_AVAILABLE, now, intervention,
                   modified_emissions, response, data_loader, emissions_grid,
                   layer, probe>>

\* lines 97-103: available is whether get_data_loader could be imported
\* and returned a loader
InitDataLoader(available) ==
    /\ pc = "data_loader"
    /\ data_loader' = available
    /\ pc' = "generate_baseline"
    /\ op' = "get_data_loader"
    /\ UNCHANGED <<loader_vars, regen_vars, net_vars, cache_vars, nyc_boundaries, nyc_boundary_union,
                   GEOPANDAS_AVAILABLE, now, intervention, modified_emissions,
                   response, emissions_grid, layer, probe>>

\* mutant: the synthesis clears and refills the array of the cached triple
WorkingArrayOfCache == "cached"

\* lines 158, 306 and 193: every synthesis writes an array of its own, made
\* by np.zeros and by the arithmetic of the synthetic grid
WorkingArray == "new"

\* what a write of the working array does to the cached triple
WriteThrough ==
    baseline_cache' =
        IF WorkingArray = "cached" /\ baseline_cache # NoCache
        THEN [baseline_cache EXCEPT !.emissions = emissions_grid']
        ELSE baseline_cache

\* _generate_baseline up to the choice of the path
GenerateBaseline ==
    /\ pc = "generate_baseline"
    /\ emissions_grid' = [c \in SynthCells |-> 0]
    /\ layer' = 0
    /\ syntheses' = syntheses + 1
    /\ pc' = IF data_loader THEN "real_data" ELSE "synthetic"
    /\ op' = "np.zeros"
    /\ WriteThrough
    /\ UNCHANGED <<loader_vars, seen, net_vars, last_update, openaq_cache, nyc_boundaries, nyc_boundary_union,
                   GEOPANDAS_AVAILABLE, now, intervention, modified_emissions,
                   response, data_loader, probe>>

\* the next statement of _generate_from_real_data
RealDataLayer ==
    /\ pc = "real_data"
    /\ layer < Len(LayerOrder)
    /\ emissions_grid' = ApplyLayer(LayerOrder[layer + 1], emissions_grid)
    /\ layer' = layer + 1
    /\ op' = LayerOrder[layer + 1]
    /\ WriteThrough
    /\ UNCHANGED <<loader_vars, regen_vars, net_vars, last_update, openaq_cache, nyc_boundaries, nyc_boundary_union,
                   GEOPANDAS_AVAILABLE, now, pc, intervention,
                   modified_emissions, response, data_loader, probe>>

\* mutant: _generate_baseline has no except clause and the error leaves it
OnRealDataErrorPropagates == "idle"

\* lines 166-171: where _generate_baseline goes on when
\* _generate_from_real_data raises
OnRealDataError == "synthetic"

\* a statement of _generate_from_real_data raises: the except clause of
\* _generate_baseline starts the synthetic baseline, on a new array
RealDataRaises ==
    /\ pc = "real_data"
    /\ layer < Len(LayerOrder)
    /\ emissions_grid' = [c \in SynthCells |-> 0]
    /\ layer' = 0
    /\ pc' = OnRealDataError
    /\ op' = "except"
    /\ WriteThrough
    /\ UNCHANGED <<loader_vars, regen_vars, net_vars, last_update, openaq_cache, nyc_boundaries,
                   nyc_boundary_union, GEOPANDAS_AVAILABLE, now, intervention,
                   modified_emissions, response, data_loader, probe>>

\* _generate_synthetic_baseline, lines 306-317
SyntheticPoints(noise) ==
    /\ pc = "synthetic" /\ layer = 0
    /\ emissions_grid' = SyntheticGrid(noise)
    /\ layer' = 1
    /\ op' = "noise"
    /\ WriteThrough
    /\ UNCHANGED <<loader_vars, regen_vars, net_vars, last_update, openaq_cache, nyc_boundaries, nyc_boundary_union,
                   GEOPANDAS_AVAILABLE, now, pc, intervention,
                   modified_emissions, response, data_loader, probe>>

\* lines 431-433: the cached list is returned
CacheHit ==
    /\ openaq_cache # <<>> /\ openaq_cache[1] # <<>>
    /\ last_update # <<>>
    /\ now - last_update[1] < CacheMinutes

\* line 321: the call of fetch_openaq_data inside the try block
SyntheticFetch(api_key, v3, v2, m) ==
    /\ pc = "synthetic" /\ layer = 1
    /\ IF CacheHit
       THEN /\ response' = [NoResponse EXCEPT !.status = "ok",
                                              !.stations = openaq_cache[1]]
            /\ UNCHANGED <<openaq_cache, fetched_at>>
            /\ requests' = <<>>
       ELSE /\ \E r \in {FetchOutcome(api_key, v3, v2, m)} :
                  /\ openaq_cache' = r.openaq_cache
                  /\ response' = [NoResponse EXCEPT
                                    !.status = IF r.raised THEN "raised" ELSE "ok",
                                    !.stations = r.returned]
            /\ requests' = Requests(api_key, v3, v2)
            /\ RecordFetch
    /\ layer' = 2
    /\ op' = "fetch_openaq_data"
    /\ UNCHANGED <<loader_vars, regen_vars, baseline_cache, last_update, nyc_boundaries, nyc_boundary_union,
                   GEOPANDAS_AVAILABLE, now, pc, intervention,
                   modified_emissions, data_loader, emissions_grid, probe>>

\* lines 322-323: if openaq_data: blend
SyntheticBlend ==
    /\ pc = "synthetic" /\ layer = 2
    /\ emissions_grid' =
          IF response.status = "ok" /\ response.stations # <<>>
          THEN _blend_openaq_data(emissions_grid, response.stations, 1)
          ELSE emissions_grid
    /\ layer' = 3
    /\ op' = "_blend_openaq_data"
    /\ WriteThrough
    /\ UNCHANGED <<loader_vars, regen_vars, net_vars, last_update, openaq_cache, nyc_boundaries, nyc_boundary_union,
                   GEOPANDAS_AVAILABLE, now, pc, intervention,
                   modified_emissions, response, data_loader, probe>>

\* lines 177-178: the finished grid is cached and the constructor returns
CacheBaseline ==
    /\ \/ pc = "real_data" /\ layer = Len(LayerOrder)
       \/ pc = "synthetic" /\ layer = 3
    /\ baseline_cache' = [lats |-> SynthLats, lons |-> SynthLons,
                          emissions |-> emissions_grid]
    /\ last_update' = <<now>>
    /\ response' = NoResponse
    /\ requests' = <<>>
    /\ pc' = "idle"
    /\ op' = "_generate_baseline"
    /\ UNCHANGED <<loader_vars, regen_vars, fetched_at, openaq_cache, nyc_boundaries, nyc_boundary_union,
                   GEOPANDAS_AVAILABLE, now, intervention, modified_emissions,
                   data_loader, emissions_grid, layer, probe>>

\* a call of _is_in_target_area on the constructed object
IsInTargetArea(lat, lon, target) ==
    /\ pc = "idle"
    /\ probe' = << [lat |-> lat, lon |-> lon, target |-> target,
                    result |-> _is_in_target_area(nyc_boundaries,
                                   GEOPANDAS_AVAILABLE, lat, lon, target)] >>
    /\ pc' = "responded"
    /\ op' = "_is_in_target_area"
    /\ UNCHANGED <<loader_vars, regen_vars, net_vars, cache_vars, nyc_boundaries, nyc_boundary_union,
                   GEOPANDAS_AVAILABLE, now, intervention, modified_emissions,
                   response, data_loader, emissions_grid, layer>>

\* a call of _is_in_nyc_boundaries on the constructed object
IsInNycBoundaries(lat, lon) ==
    /\ pc = "idle"
    /\ probe' = << [lat |-> lat, lon |-> lon, target |-> "",
                    result |-> _is_in_nyc_boundaries(nyc_boundaries,
                                   GEOPANDAS_AVAILABLE, lat, lon)] >>
    /\ pc' = "responded"
    /\ op' = "_is_in_nyc_boundaries"
    /\ UNCHANGED <<loader_vars, regen_vars, net_vars, cache_vars, nyc_boundaries, nyc_boundary_union,
                   GEOPANDAS_AVAILABLE, now, intervention, modified_emissions,
                   response, data_loader, emissions_grid, layer>>

\* the call returns to its caller
Return ==
    /\ pc = "responded"
    /\ probe' = <<>>
    /\ pc' = "idle"
    /\ op' = "return"
    /\ UNCHANGED <<loader_vars, regen_vars, net_vars, cache_vars, nyc_boundaries, nyc_boundary_union,
                   GEOPANDAS_AVAILABLE, now, intervention, modified_emissions,
                   response, data_loader, emissions_grid, layer>>

CtorNext ==
    \/ \E outcome \in LoadOutcomes : LoadNycBoundaries(outcome)
    \/ \E available \in BOOLEAN : InitDataLoader(available)
    \/ GenerateBaseline
    \/ RealDataLayer
    \/ RealDataRaises
    \/ \E noise \in NoiseFields : SyntheticPoints(noise)
    \/ \E api_key \in BOOLEAN, v3 \in RequestOutcomes, v2 \in RequestOutcomes,
          m \in SensorLists : SyntheticFetch(api_key, v3, v2, m)
    \/ SyntheticBlend
    \/ CacheBaseline
    \/ \E p \in ProbePoints, target \in Targets : IsInTargetArea(p[1], p[2], target)
    \/ \E p \in ProbePoints : IsInNycBoundaries(p[1], p[2])
    \/ Return

CtorSpec == CtorInit /\ [][CtorNext]_vars

(* ---------------------- synthesis, again, and readers ------------------ *)
(* A fourth specification calls _generate_baseline on the constructed      *)
(* object again, with get_baseline_grid or apply_intervention running in   *)
(* another thread.  np.zeros gives every synthesis an array of its own,    *)
(* so the steps of a synthesis write emissions_grid and never the array    *)
(* the cache holds.                                                        *)

\* the object has left __init__ and other code holds a reference to it
Constructed == pc = "idle" \/ syntheses > 1

\* a call of _generate_baseline on the constructed object
Regenerate ==
    /\ pc = "idle"
    /\ syntheses < MaxSyntheses
    /\ pc' = "generate_baseline"
    /\ op' = "call"
    /\ UNCHANGED <<loader_vars, regen_vars, net_vars, cache_vars, nyc_boundaries,
                   nyc_boundary_union, GEOPANDAS_AVAILABLE, now, intervention,
                   modified_emissions, response, data_loader, emissions_grid,
                   layer, probe>>

\* lines 594-597 and 626-629 in another thread: the reader starts a
\* synthesis of its own when the cache is None, and else takes the triple
ReadBaseline ==
    /\ Constructed
    /\ IF baseline_cache = NoCache
       THEN /\ pc = "idle"
            /\ pc' = "generate_baseline"
            /\ seen' = [emissions |-> <<>>, regenerated |-> TRUE]
       ELSE /\ seen' = [emissions |-> baseline_cache.emissions,
                        regenerated |-> FALSE]
            /\ UNCHANGED pc
    /\ UNCHANGED <<loader_vars, syntheses, net_vars, cache_vars, nyc_boundaries,
                   nyc_boundary_union, GEOPANDAS_AVAILABLE, now, op, intervention,
                   modified_emissions, response, data_loader, emissions_grid,
                   layer, probe>>

RegenNext ==
    \/ \E outcome \in LoadOutcomes : LoadNycBoundaries(outcome)
    \/ \E available \in BOOLEAN : InitDataLoader(available)
    \/ GenerateBaseline
    \/ RealDataLayer
    \/ RealDataRaises
    \/ \E noise \in NoiseFields : SyntheticPoints(noise)
    \/ \E api_key \in BOOLEAN, v3 \in RequestOutcomes, v2 \in RequestOutcomes,
          m \in SensorLists : SyntheticFetch(api_key, v3, v2, m)
    \/ SyntheticBlend
    \/ CacheBaseline
    \/ Regenerate
    \/ ReadBaseline

RegenSpec == CtorInit /\ [][RegenNext]_vars

(* ------------------------- the reference data loader ------------------- *)
(* A fifth specification constructs NYCDataLoader and calls                *)
(* get_emissions_for_sector.  Emissions are whole tons per year and        *)
(* percentages whole percents; the reference files are not part of the     *)
(* repository, so a file that loads yields a sample dataset.               *)

\* v * num / den, rounded down, for v >= 0 and den > 0
Scale(v, num, den) == (v \div den) * num + ((v % den) * num) \div den

\* the cache entry of a JSON file that failed to load
EmptyData == [present |-> {}]

\* dict.get on reference data: the sample value, or the default when the
\* entry is empty
DataGet(d, key, default) == IF key \in d.present THEN d[key] ELSE default

\* what the reference files yield when they load
SampleData ==
    [aviation_emissions |->
        [present |-> {"airport_operations"},
         airport_operations |-> [JFK |-> 450000, LaGuardia |-> 360000]],
     transport_vehicles |->
        [present |-> {"gasoline", "diesel", "hybrid", "electric", "yellow_cabs",
                      "mta_buses"},
         gasoline |-> 1500000, diesel |-> 250000, hybrid |-> 200000,
         electric |-> 60000, yellow_cabs |-> 13000, mta_buses |-> 5700],
     energy |->
        [present |-> {"average_demand_mw", "grid_average_kg_co2_per_mwh"},
         average_demand_mw |-> 6500, grid_average_kg_co2_per_mwh |-> 290],
     waste_management |->
        [present |-> {"annual_tons", "landfill_percentage"},
         annual_tons |-> 12000000, landfill_percentage |-> 600],
     \* the citywide total the GHG column of the buildings CSV scales to
     buildings_ghg |-> 24 * 1000 * 1000]

\* what the buildings CSV gives: no file, rows without a usable column, or
\* rows whose GHG column scales to a citywide total
BuildingsData == {"missing", "no_column", "ghg"}

\* the JSON files that fail to load together in the sample runs
LoadFailures ==
    { {}, {"aviation_emissions"}, {"transport_vehicles", "energy"},
      {"waste_management"},
      {"aviation_emissions", "transport_vehicles", "energy", "waste_management"} }

\* _load_all_data: a JSON file that fails leaves an empty entry
LoaderCaches ==
    { [file \in {"aviation_emissions", "transport_vehicles", "energy",
                 "waste_management"} |->
          IF file \in failed THEN EmptyData ELSE SampleData[file]]
        @@ [buildings |-> b] :
        failed \in LoadFailures, b \in BuildingsData }

\* sector.lower()
SectorLower(sector) ==
    CASE sector = "Aviation" -> "aviation"
      [] sector = "ENERGY" -> "energy"
      [] OTHER -> sector

\* the words 'jfk', 'lga' and 'laguardia' found in text.lower()
Keywords(text) ==
    CASE text = "JFK Airport" -> {"jfk"}
      [] text = "LaGuardia Airport" -> {"laguardia"}
      [] text = "Cut flights at LGA by a quarter" -> {"lga"}
      [] OTHER -> {}

\* target is <<subsector, specific_location, description>>
SectorIntervention(present, reduction_percent, borough, target) ==
    [present |-> present, reduction_percent |-> reduction_percent,
     direction |-> IF reduction_percent < 0 THEN "increase" ELSE "decrease",
     magnitude_percent |-> Abs(reduction_percent),
     subsector |-> target[1], borough |-> borough,
     specific_location |-> target[2], description |-> target[3]]

\* the interventions of the tests, with decreases, increases and more than
\* the whole, and dicts that lack keys
SectorInterventions ==
    { SectorIntervention(present, rp, "Manhattan", target) :
        present \in { {},
                      {"reduction_percent", "description", "specific_location"},
                      {"reduction_percent", "direction", "subsector", "borough",
                       "description", "specific_location", "magnitude_percent"} },
        rp \in {25, -10, 150},
        target \in
          { <<"taxis", "JFK Airport",
              "Convert 25% of flights to sustainable aviation fuel">>,
            <<"bus", "LaGuardia Airport",
              "Convert 25% of flights to sustainable aviation fuel">>,
            <<"waste", "", "Cut flights at LGA by a quarter">>,
            <<"general", "", "Convert 25% of flights to sustainable aviation fuel">> } }

\* mutant: the savings are computed from the percentage, not from the two
\* totals
ApplyReductionFromPercent(baseline, iv) ==
    [baseline_tons_co2 |-> baseline,
     reduced_tons_co2 |->
        baseline - Scale(baseline, Get(iv, "reduction_percent", 20), 100),
     annual_savings_tons_co2 |->
        Scale(baseline, Abs(Get(iv, "reduction_percent", 20)), 100)]

\* reduced = baseline * (1 - reduction_pct); savings = baseline - reduced
ApplyReduction(baseline, iv) ==
    LET reduced == baseline - Scale(baseline, Get(iv, "reduction_percent", 20), 100)
    IN  [baseline_tons_co2 |-> baseline,
         reduced_tons_co2 |-> reduced,
         annual_savings_tons_co2 |-> baseline - reduced]

\* the LTO emissions of annual_ops operations: 65% narrow body at 850 kg,
\* 30% wide body at 2500 kg, 5% regional at 450 kg
AirportEmissions(annual_ops) ==
    Scale(Scale(annual_ops, 65, 100), 850, 1000)
        + Scale(Scale(annual_ops, 30, 100), 2500, 1000)
        + Scale(Scale(annual_ops, 5, 100), 450, 1000)

\* lines 169-177: the airports the intervention is about
TargetAirports(iv) ==
    IF "jfk" \in Keywords(Get(iv, "specific_location", ""))
          \/ "jfk" \in Keywords(Get(iv, "description", ""))
    THEN {"JFK"}
    ELSE IF "laguardia" \in Keywords(Get(iv, "specific_location", ""))
          \/ "lga" \in Keywords(Get(iv, "description", ""))
          \/ "laguardia" \in Keywords(Get(iv, "description", ""))
    THEN {"LaGuardia"}
    ELSE {"JFK", "LaGuardia"}

get_aviation_emissions_for_intervention(cache, iv) ==
    LET ops == DataGet(cache.aviation_emissions, "airport_operations",
                       [JFK |-> 0, LaGuardia |-> 0])
        jfk == IF "JFK" \in TargetAirports(iv)
               THEN AirportEmissions(ops.JFK) ELSE 0
        lga == IF "LaGuardia" \in TargetAirports(iv)
               THEN AirportEmissions(ops.LaGuardia) ELSE 0
    IN  ApplyReduction(jfk + lga, iv)

\* the share of a borough in the building estimate, in percent
BoroughFactor(borough) ==
    CASE borough = "Manhattan" -> 45
      [] borough = "Brooklyn" -> 25
      [] borough = "Queens" -> 18
      [] borough = "Bronx" -> 8
      [] borough = "Staten Island" -> 4
      [] OTHER -> 100

_estimate_building_emissions(iv) ==
    ApplyReduction(Scale(30 * 1000 * 1000,
                         BoroughFactor(Get(iv, "borough", "citywide")), 100), iv)

get_building_emissions_for_intervention(cache, iv) ==
    IF cache.buildings = "ghg"
    THEN ApplyReduction(SampleData.buildings_ghg, iv)
    ELSE _estimate_building_emissions(iv)

\* kg of CO2 a vehicle emits in a year of 8000 miles, per fuel
KgPerVehicle ==
    [gasoline |-> 3120, diesel |-> 3280, hybrid |-> 1760, electric |-> 1200]

get_transport_emissions_for_intervention(cache, iv) ==
    LET d == cache.transport_vehicles
        fleet == Scale(DataGet(d, "gasoline", 1600000), KgPerVehicle.gasoline, 1000)
                   + Scale(DataGet(d, "diesel", 300000), KgPerVehicle.diesel, 1000)
                   + Scale(DataGet(d, "hybrid", 150000), KgPerVehicle.hybrid, 1000)
                   + Scale(DataGet(d, "electric", 40000), KgPerVehicle.electric, 1000)
        \* 180 miles a day at 0.39 kg a mile
        taxis == Scale(DataGet(d, "yellow_cabs", 13500) + 80000, 25623, 1000)
        \* 150 miles a day at 0.41 kg a mile
        buses == Scale(DataGet(d, "mta_buses", 5800), 224475, 10000)
        subsector == Get(iv, "subsector", "general")
    IN  ApplyReduction(IF subsector = "taxis" THEN taxis
                       ELSE IF subsector = "bus" THEN buses
                       ELSE fleet, iv)

get_energy_emissions_for_intervention(cache, iv) ==
    LET annual_mwh == DataGet(cache.energy, "average_demand_mw", 7000) * 8760
    IN  ApplyReduction(
            Scale(annual_mwh,
                  DataGet(cache.energy, "grid_average_kg_co2_per_mwh", 350), 1000),
            iv)

get_industry_emissions_for_intervention(cache, iv) ==
    LET d == cache.waste_management
        waste == Scale(Scale(DataGet(d, "annual_tons", 14000000),
                             DataGet(d, "landfill_percentage", 650), 1000),
                       500, 1000)
    IN  ApplyReduction(IF Get(iv, "subsector", "general") = "waste"
                       THEN waste
                       ELSE 5 * 1000 * 1000, iv)

\* 683,788 trees, 20 kg a tree: the sequestration of magnitude percent more
_get_nature_sequestration(iv) ==
    LET annual_sequestration ==
            Scale(Scale(683788, Get(iv, "magnitude_percent", 20), 100), 20, 1000)
    IN  [baseline_tons_co2 |-> 0,
         reduced_tons_co2 |-> 0 - annual_sequestration,
         annual_savings_tons_co2 |-> annual_sequestration]

_get_generic_emissions(iv) == ApplyReduction(50 * 1000 * 1000, iv)

get_emissions_for_sector(cache, sector, iv) ==
    CASE SectorLower(sector) = "aviation" ->
             get_aviation_emissions_for_intervention(cache, iv)
      [] SectorLower(sector) = "buildings" ->
             get_building_emissions_for_intervention(cache, iv)
      [] SectorLower(sector) = "transport" ->
             get_transport_emissions_for_intervention(cache, iv)
      [] SectorLower(sector) = "energy" ->
             get_energy_emissions_for_intervention(cache, iv)
      [] SectorLower(sector) = "industry" ->
             get_industry_emissions_for_intervention(cache, iv)
      [] SectorLower(sector) = "nature" -> _get_nature_sequestration(iv)
      [] OTHER -> _get_generic_emissions(iv)

Sectors ==
    {"Aviation", "buildings", "transport", "ENERGY", "industry", "nature",
     "maritime"}

\* NYCDataLoader.__init__
LoadAllData(cache) ==
    /\ loader_cache = <<>>
    /\ loader_cache' = <<cache>>
    /\ op' = "_load_all_data"
    /\ UNCHANGED <<sector_result, regen_vars, net_vars, ctor_vars, cache_vars,
                   nyc_boundaries, GEOPANDAS_AVAILABLE, now, pc, intervention,
                   modified_emissions, response>>

GetEmissionsForSector(sector, iv) ==
    /\ loader_cache # <<>>
    /\ sector_result' =
          << [sector |-> sector, intervention |-> iv,
              result |-> get_emissions_for_sector(loader_cache[1], sector, iv)] >>
    /\ op' = "get_emissions_for_sector"
    /\ UNCHANGED <<loader_cache, regen_vars, net_vars, ctor_vars, cache_vars,
                   nyc_boundaries, GEOPANDAS_AVAILABLE, now, pc, intervention,
                   modified_emissions, response>>

LoaderNext ==
    \/ \E cache \in LoaderCaches : LoadAllData(cache)
    \/ \E sector \in Sectors, iv \in SectorInterventions :
          GetEmissionsForSector(sector, iv)

\* the loader lives in a module of its own: nothing else need exist
LoaderSpec == CtorInit /\ [][LoaderNext]_vars

(* ----------------------- the centre of a kernel ------------------------ *)
(* A sixth specification computes, for the entries of the two tables and   *)
(* a range of grid resolutions, the cell the kernel is centred on.         *)

\* line 77: the resolution __init__ computes when none is given
DefaultResolution == 48

\* grid_resolution: the resolution of the synthesis above, every resolution
\* up to the default one, and that of the tests
Resolutions == (SynthRes..DefaultResolution) \cup {100}

\* the tables of _generate_from_real_data
TableEntries ==
    {airports[k] : k \in DOMAIN airports} \cup {hotspots[k] : k \in DOMAIN hotspots}

\* (n - 1) times the distance of x from sample k of np.linspace(lo, hi, n),
\* in 1e-4 degree
SampleOffset(x, lo, hi, n, k) == Abs((x - lo * 10) * (n - 1) - (k - 1) * (hi - lo) * 10)

\* lines 227-228 and 253-254 for one entry at one resolution
KernelCentre(s, n) ==
    /\ probe' = << [name |-> s.name, lat |-> s.lat, lon |-> s.lon,
                    grid_resolution |-> n,
                    i |-> KernelIndex(s.lat, South, North, n),
                    j |-> KernelIndex(s.lon, West, East, n)] >>
    /\ op' = "kernel_centre"
    /\ UNCHANGED <<loader_vars, regen_vars, net_vars, cache_vars, nyc_boundaries,
                   nyc_boundary_union, GEOPANDAS_AVAILABLE, now, pc, intervention,
                   modified_emissions, response, data_loader, emissions_grid,
                   layer>>

CentreNext == \E s \in TableEntries, n \in Resolutions : KernelCentre(s, n)

CentreSpec == CtorInit /\ [][CentreNext]_vars


(* ====================== properties of the engine ======================= *)
Base == baseline_cache.emissions

Applied == op = "apply_intervention"

TheIntervention == intervention[1]

TheMods == Get(TheIntervention, "geographic_modifications", <<>>)

HasPattern == "spatial_pattern" \in TheIntervention.present

\* apply_intervention returned a grid computed by the rule loop
AppliedRules ==
    /\ Applied
    /\ ~TheIntervention.is_unrelated
    /\ response.status = "ok"

BaselinePoints == ToPoints(Base, nyc_boundaries, GEOPANDAS_AVAILABLE, 1)

\* the value of one cell after the rules mods[k..], computed cell by cell
RECURSIVE CellProduct(_, _, _, _)
CellProduct(c, mods, k, v) ==
    IF k > Len(mods) THEN v
    ELSE CellProduct(c, mods, k + 1,
            IF ModAffects(mods[k], c, Base, nyc_boundaries, GEOPANDAS_AVAILABLE)
            THEN MulDiv(v, ModFactor(mods[k], c))
            ELSE v)

\* the number of the rules of a list that multiply cell c
RECURSIVE AffectingCount(_, _, _)
AffectingCount(c, mods, k) ==
    IF k > Len(mods) THEN 0
    ELSE AffectingCount(c, mods, k + 1)
         + (IF ModAffects(mods[k], c, Base, nyc_boundaries, GEOPANDAS_AVAILABLE)
            THEN 1 ELSE 0)

(* C1: apply_intervention never mutates the cached baseline: a call leaves  *)
(* baseline_cache, last_update and openaq_cache as they were, so the        *)
(* baseline point list and the timestamp read afterwards are the same.      *)
BaselineNeverMutated ==
    [][Applied' =>
         /\ baseline_cache' = baseline_cache
         /\ last_update' = last_update
         /\ openaq_cache' = openaq_cache
         /\ BaselinePoints' = BaselinePoints]_vars

\* a call that changed its working array has just returned
BaselineNeverMutatedWitness ==
    /\ AppliedRules
    /\ \E c \in Cells : modified_emissions[c] # Base[c]
    /\ response.points # BaselinePoints

(* C2: floor invariant as the specification states it: every value that     *)
(* apply_intervention returns is at least 0.01 times the baseline value of  *)
(* the same cell, hence neither negative nor zero.                          *)
FloorInvariant ==
    (Applied /\ response.status = "ok") =>
        /\ Len(response.points) = Len(BaselinePoints)
        /\ \A n \in 1..Len(response.points) :
              /\ response.points[n][3] * 100 >= BaselinePoints[n][3]
              /\ response.points[n][3] > 0

(* C3: with is_unrelated true the returned list is the baseline list, cell  *)
(* for cell, whatever rules and overlay the intervention carries, and the   *)
(* reporting totals are set to zero.                                        *)
UnrelatedIsNoOp ==
    (Applied /\ TheIntervention.is_unrelated) =>
        /\ response.status = "ok"
        /\ response.points = BaselinePoints
        /\ TheIntervention.real_emissions =
              << [baseline_tons_co2 |-> 0, reduced_tons_co2 |-> 0,
                  annual_savings_tons_co2 |-> 0, percentage_reduction |-> 0,
                  is_unrelated |-> TRUE] >>

\* an unrelated intervention that carries rules and an overlay was applied
UnrelatedIsNoOpWitness ==
    /\ Applied
    /\ TheIntervention.is_unrelated
    /\ Len(TheMods) = 2
    /\ TheIntervention.spatial_pattern # <<>>
    /\ Len(response.points) > 0

(* C4: compounding: a cell's output is its baseline value multiplied in     *)
(* turn by the floored factor of every rule that affects it (the product,   *)
(* not the sum, the maximum, the average or the last factor alone).         *)
CompoundingIsProduct ==
    (AppliedRules /\ ~HasPattern) =>
        \A c \in Cells :
            modified_emissions[c] = CellProduct(c, TheMods, 1, Base[c])

\* a hotspot factor 0.8 and a region factor 0.8 met on a cell of value 100
CompoundingIsProductWitness ==
    /\ AppliedRules /\ ~HasPattern
    /\ \E c \in Cells :
          /\ AffectingCount(c, TheMods, 1) = 2
          /\ Len(TheMods) = 2
          /\ TheMods[1].type = "hotspot" /\ TheMods[2].type = "borough"
          /\ ModFactor(TheMods[1], c) = 800000
          /\ ModFactor(TheMods[2], c) = 800000
          /\ Base[c] = 100 * VS
          /\ modified_emissions[c] = 64 * VS

\* a list without its rules of one type
RECURSIVE WithoutType(_, _)
WithoutType(mods, type) ==
    IF mods = <<>> THEN <<>>
    ELSE IF Get(Head(mods), "type", "None") = type
         THEN WithoutType(Tail(mods), type)
         ELSE <<Head(mods)>> \o WithoutType(Tail(mods), type)

\* a list with each floor rule turned into a rule for the whole territory
RECURSIVE FloorAsCitywide(_)
FloorAsCitywide(mods) ==
    IF mods = <<>> THEN <<>>
    ELSE <<IF Get(Head(mods), "type", "None") = "baseline"
           THEN [Head(mods) EXCEPT !.type = "borough", !.area = "citywide",
                    !.present = Head(mods).present \cup {"type", "area"}]
           ELSE Head(mods)>> \o FloorAsCitywide(Tail(mods))

(* C5: floor-rule scope: a floor rule multiplies exactly the cells whose    *)
(* cached baseline value is below 20, whatever earlier rules of the same    *)
(* intervention left there; cells at or above 20 are untouched by it.       *)
FloorRuleScope ==
    (AppliedRules /\ ~HasPattern) =>
        \A c \in Cells :
            modified_emissions[c] =
                IF Base[c] < 20 * VS
                THEN CellProduct(c, FloorAsCitywide(TheMods), 1, Base[c])
                ELSE CellProduct(c, WithoutType(TheMods, "baseline"), 1, Base[c])

\* a floor rule ran after a rule that took a cell from 24 to below 20, and
\* on a cell below 20 as well
FloorRuleScopeWitness ==
    /\ AppliedRules /\ ~HasPattern
    /\ Len(TheMods) = 2
    /\ TheMods[2].type = "baseline" /\ TheMods[2].change_percent = -50
    /\ \E c \in Cells :
          /\ Base[c] = 24 * VS
          /\ modified_emissions[c] < 20 * VS
          /\ modified_emissions[c] * 10 > 24 * VS * 6
    /\ \E c \in Cells :
          /\ Base[c] = 5 * VS
          /\ modified_emissions[c] * 2 <= 5 * VS

\* the intervention is one hotspot rule with all its fields, no overlay
SingleHotspot ==
    /\ AppliedRules /\ ~HasPattern
    /\ Len(TheMods) = 1
    /\ TheMods[1].type = "hotspot"
    /\ {"type", "lat", "lon", "radius_km", "change_percent"} \subseteq TheMods[1].present

HotspotDist2(c) == Dist2(c, TheMods[1].lat, TheMods[1].lon)

\* distance >= radius_km / 111.0, on squares: 12321 * d2 >= radius_m^2
AtOrBeyondRadius(c) ==
    \/ TheMods[1].radius_km <= 0
    \/ HotspotDist2(c) > (TheMods[1].radius_km * TheMods[1].radius_km - 1) \div 12321

\* on a baseline of 100 everywhere a cell's value is its factor: |factor - 1|
Magnitude(c) == Abs(modified_emissions[c] - FS)

UniformBaseline == \A c \in Cells : Base[c] = 100 * VS

(* C6 as stated: for one hotspot rule with a non-zero change and a positive *)
(* radius, of two cells inside the radius the farther one has the strictly  *)
(* smaller |factor - 1|, and cells at or beyond the radius are unchanged.   *)
HotspotStrictDecay ==
    (SingleHotspot /\ TheMods[1].change_percent # 0 /\ TheMods[1].radius_km > 0) =>
        /\ \A c \in Cells : AtOrBeyondRadius(c) => modified_emissions[c] = Base[c]
        /\ UniformBaseline =>
             \A c1, c2 \in Cells :
                (/\ ~AtOrBeyondRadius(c1) /\ ~AtOrBeyondRadius(c2)
                 /\ HotspotDist2(c1) < HotspotDist2(c2))
                    => Magnitude(c2) < Magnitude(c1)

(* C6 amended: the farther cell never has the larger |factor - 1|, and has  *)
(* the strictly smaller one unless the nearer cell's factor is clamped at   *)
(* the 0.01 floor; cells at or beyond the radius are unchanged.             *)
HotspotDecay ==
    (SingleHotspot /\ TheMods[1].change_percent # 0 /\ TheMods[1].radius_km > 0) =>
        /\ \A c \in Cells : AtOrBeyondRadius(c) => modified_emissions[c] = Base[c]
        /\ UniformBaseline =>
             \A c1, c2 \in Cells :
                (/\ ~AtOrBeyondRadius(c1) /\ ~AtOrBeyondRadius(c2)
                 /\ HotspotDist2(c1) < HotspotDist2(c2))
                    => /\ Magnitude(c2) <= Magnitude(c1)
                       /\ modified_emissions[c1] > FS \div 100
                            => Magnitude(c2) < Magnitude(c1)

\* a hotspot with cells at three different distances inside the radius, the
\* nearest clamped at the floor, and a cell outside it
HotspotDecayWitness ==
    /\ SingleHotspot /\ UniformBaseline
    /\ TheMods[1].radius_km > 0
    /\ \E c1, c2, c3, c4 \in Cells :
          /\ ~AtOrBeyondRadius(c1) /\ ~AtOrBeyondRadius(c2) /\ ~AtOrBeyondRadius(c3)
          /\ HotspotDist2(c1) < HotspotDist2(c2)
          /\ HotspotDist2(c2) < HotspotDist2(c3)
          /\ modified_emissions[c1] = FS \div 100
          /\ Magnitude(c3) < Magnitude(c2)
          /\ Magnitude(c3) > 0
          /\ AtOrBeyondRadius(c4)

\* the intervention is one region rule with all its fields, no overlay
SingleRegion ==
    /\ AppliedRules /\ ~HasPattern
    /\ Len(TheMods) = 1
    /\ TheMods[1].type = "borough"
    /\ {"type", "area", "change_percent"} \subseteq TheMods[1].present

\* the cells that pass the containment test for the rule's area
RegionCells ==
    {c \in Cells : _is_in_target_area(nyc_boundaries, GEOPANDAS_AVAILABLE,
                                      Lats[c[1]], Lons[c[2]], TheMods[1].area)}

(* C7: region rule: the cells that pass the containment test for the named  *)
(* area are multiplied by max(0.01, 1 + change_percent/100), every other    *)
(* cell is unchanged; on a baseline of 100 everywhere, a region holding one *)
(* cell and -30% give 70 in that cell and 100 in all others.                *)
RegionRule ==
    SingleRegion =>
        /\ \A c \in Cells :
              modified_emissions[c] =
                  IF c \in RegionCells
                  THEN (Base[c] * Max(1, 100 + TheMods[1].change_percent)) \div 100
                  ELSE Base[c]
        /\ (/\ UniformBaseline
            /\ TheMods[1].change_percent = -30
            /\ Cardinality(RegionCells) = 1)
              => \A c \in Cells :
                    modified_emissions[c] =
                        IF c \in RegionCells THEN 70 * VS ELSE 100 * VS

\* a -30% rule for a region of exactly one cell ran on the uniform baseline
RegionRuleWitness ==
    /\ SingleRegion /\ UniformBaseline
    /\ TheMods[1].change_percent = -30
    /\ Cardinality(RegionCells) = 1
    /\ \E c \in RegionCells : modified_emissions[c] = 70 * VS
    /\ Cardinality({c \in Cells : modified_emissions[c] = 100 * VS})
          = GridRes * GridRes - 1

\* the squared radius in millidegrees^2
HotspotRadius2 ==
    (TheMods[1].radius_km * TheMods[1].radius_km) \div 12321

\* a cell inside the radius at 95% of the radius or more
NearEdge(c) ==
    /\ ~AtOrBeyondRadius(c)
    /\ HotspotDist2(c) * 100 >= 90 * HotspotRadius2

(* C8 as stated: the weight is 1.0 at the target point and near zero at the *)
(* radius edge: a cell in the outer 5% of the radius keeps less than 5% of  *)
(* the change, so the factor does not jump across the radius.               *)
EdgeWeightNearZero ==
    (SingleHotspot /\ UniformBaseline /\ TheMods[1].radius_km > 0) =>
        \A c \in Cells :
            /\ HotspotDist2(c) = 0 =>
                  modified_emissions[c]
                      = Max(FS \div 100, FS + TheMods[1].change_percent * 10000)
            /\ NearEdge(c) =>
                  Magnitude(c) * 20 <= Abs(TheMods[1].change_percent) * 10000

(* C8 amended: the weight is 1.0 at the target point (factor                *)
(* max(0.01, 1 + change_percent/100) there) and falls only to exp(-2), about *)
(* 0.135, at the radius edge: every cell inside the radius keeps at least   *)
(* 13.5% of the change (or is clamped at 0.01), cells at or beyond the      *)
(* radius keep factor 1.0, so the factor jumps across the radius.           *)
HotspotWeightProfile ==
    (SingleHotspot /\ UniformBaseline /\ TheMods[1].radius_km > 0) =>
        \A c \in Cells :
            /\ HotspotDist2(c) = 0 =>
                  modified_emissions[c]
                      = Max(FS \div 100, FS + TheMods[1].change_percent * 10000)
            /\ ~AtOrBeyondRadius(c) =>
                  Magnitude(c) >= Min(Abs(TheMods[1].change_percent) * 1350,
                                      FS - FS \div 100)
            /\ AtOrBeyondRadius(c) => Magnitude(c) = 0

\* a -50% hotspot on a grid point: 0.5 there, a cell in the outer 5% of the
\* radius that keeps more than 13.5% of the change, and a cell outside
HotspotWeightProfileWitness ==
    /\ SingleHotspot /\ UniformBaseline
    /\ TheMods[1].radius_km > 0
    /\ TheMods[1].change_percent = -50
    /\ \E c1, c2, c3 \in Cells :
          /\ HotspotDist2(c1) = 0 /\ modified_emissions[c1] = FS \div 2
          /\ NearEdge(c2) /\ Magnitude(c2) >= 50 * 1350
          /\ AtOrBeyondRadius(c3) /\ Magnitude(c3) = 0

\* the fields a rule of each type must carry
RequiredFields(type) ==
    CASE type = "hotspot"  -> {"lat", "lon", "radius_km", "change_percent"}
      [] type = "borough"  -> {"area", "change_percent"}
      [] type = "baseline" -> {"change_percent"}
      [] OTHER -> {}

Malformed(m) ==
    /\ "type" \in m.present
    /\ ~(RequiredFields(m.type) \subseteq m.present)

(* C9: a rule that lacks a field required for its type makes                *)
(* apply_intervention fail with an error; the rule is never applied         *)
(* silently with a default value or as a no-op, so the call does not        *)
(* return a grid.                                                           *)
MalformedFailsFast ==
    (Applied /\ ~TheIntervention.is_unrelated
        /\ \E k \in 1..Len(TheMods) : Malformed(TheMods[k]))
      => response.status # "ok"

Degenerate(m) ==
    /\ Get(m, "type", "None") = "hotspot"
    /\ "radius_km" \in m.present
    /\ m.radius_km <= 0

RECURSIVE WithoutDegenerate(_)
WithoutDegenerate(mods) ==
    IF mods = <<>> THEN <<>>
    ELSE IF Degenerate(Head(mods)) THEN WithoutDegenerate(Tail(mods))
         ELSE <<Head(mods)>> \o WithoutDegenerate(Tail(mods))

\* the value of one cell after the overlay points pattern[k..]
RECURSIVE CellOverlay(_, _, _, _)
CellOverlay(c, pattern, k, v) ==
    IF k > Len(pattern) THEN v
    ELSE CellOverlay(c, pattern, k + 1,
            IF Dist2(c, pattern[k][1], pattern[k][2]) < 50 * 50
            THEN MulDiv(v, FS + (pattern[k][3] - 5) * 20000)
            ELSE v)

ThePattern == IF HasPattern THEN TheIntervention.spatial_pattern ELSE <<>>

(* C10: a hotspot rule with radius_km <= 0 changes no cell and raises no    *)
(* error; the other rules and the overlay of the intervention are applied   *)
(* as if the rule were not in the list.                                     *)
DegenerateRadiusNoOp ==
    (Applied /\ ~TheIntervention.is_unrelated
        /\ (\E k \in 1..Len(TheMods) : Degenerate(TheMods[k]))
        /\ (\A k \in 1..Len(TheMods) : ~Malformed(TheMods[k])))
      => /\ response.status = "ok"
         /\ \A c \in Cells :
               modified_emissions[c] =
                   CellOverlay(c, ThePattern, 1,
                       CellProduct(c, WithoutDegenerate(TheMods), 1, Base[c]))

\* a zero-radius hotspot was applied with another rule and an overlay, and
\* both changed cells
DegenerateRadiusNoOpWitness ==
    /\ AppliedRules /\ HasPattern
    /\ Len(TheMods) = 2
    /\ Degenerate(TheMods[1]) /\ TheMods[1].radius_km = 0
    /\ TheMods[2].type = "borough"
    /\ \E c1, c2 \in Cells :
          /\ Base[c1] > 0 /\ Base[c2] > 0
          /\ modified_emissions[c1] = MulDiv(Base[c1], 800000)
          /\ modified_emissions[c2] = MulDiv(MulDiv(Base[c2], 800000), 1100000)

(* ================ properties of the geometry and synthesis ============= *)
\* a call of _is_in_target_area has just returned its result
Probed == op = "_is_in_target_area"

\* a call of _is_in_nyc_boundaries has just returned its result
Filtered == op = "_is_in_nyc_boundaries"

TheProbe == probe[1]

\* the polygons are in use
PolygonMode == nyc_boundaries # <<>> /\ GEOPANDAS_AVAILABLE

RegionNames == {"Manhattan", "Bronx", "Brooklyn", "Queens", "Staten Island"}

\* the polygon stored under a label
RegionPolygon(name) ==
    (CHOOSE k \in 1..Len(BoundaryRows) : BoundaryRows[k].boro_name = name)

\* the point lies inside the boundary of the region: inside its polygon
\* when the polygons are loaded, otherwise in its rectangle, edges included
InsideRegion(name, lat, lon) ==
    IF PolygonMode
    THEN LET g == BoundaryRows[RegionPolygon(name)].geometry
         IN  g[1] < lat /\ lat < g[2] /\ g[3] < lon /\ lon < g[4]
    ELSE LET r == borough_bounds[name]
         IN  r[1] <= lat /\ lat <= r[2] /\ r[3] <= lon /\ lon <= r[4]

\* two regions share a point of their rectangles
Overlap(a, b) ==
    LET r == borough_bounds[a]
        q == borough_bounds[b]
    IN  /\ Max(r[1], q[1]) <= Min(r[2], q[2])
        /\ Max(r[3], q[3]) <= Min(r[4], q[4])

(* C11: containment correctness: the containment test for a named region R *)
(* returns true for every point inside R's boundary (polygon when loaded,   *)
(* otherwise rectangle) and false for every point inside a different region *)
(* that does not overlap R.                                                 *)
ContainmentCorrect ==
    (Probed /\ TheProbe.target \in RegionNames) =>
        /\ InsideRegion(TheProbe.target, TheProbe.lat, TheProbe.lon)
              => TheProbe.result
        /\ (\E other \in RegionNames \ {TheProbe.target} :
               /\ ~Overlap(other, TheProbe.target)
               /\ InsideRegion(other, TheProbe.lat, TheProbe.lon))
              => ~TheProbe.result

\* with the polygons loaded, a point of Staten Island was tested against
\* Manhattan and rejected
ContainmentCorrectWitness ==
    /\ Probed /\ PolygonMode
    /\ TheProbe.target = "Manhattan"
    /\ InsideRegion("Staten Island", TheProbe.lat, TheProbe.lon)
    /\ ~Overlap("Staten Island", "Manhattan")
    /\ ~TheProbe.result

\* the stored label a requested name stands for: equal to it up to letter
\* case, or containing it
Canonical(target) ==
    CASE target \in {"manhattan", "MANHATTAN", "Manhattan"} -> "Manhattan"
      [] target \in {"Staten", "Staten Island"} -> "Staten Island"
      [] OTHER -> target

(* C12: region name matching is case-insensitive and tolerates a partial    *)
(* substring match in polygon mode and in rectangle mode alike: a name that *)
(* differs from a stored label in letter case only, or is a part of it,     *)
(* selects the points the stored label selects.                             *)
NameMatchingTolerant ==
    (Probed /\ Canonical(TheProbe.target) \in RegionNames) =>
        TheProbe.result
            = InsideRegion(Canonical(TheProbe.target), TheProbe.lat, TheProbe.lon)

WholeTerritoryNames == {"citywide", "Citywide", "CITYWIDE", "all", "ALL", "All"}

\* the point is in no borough, by polygon or by rectangle
OutsideEveryBorough(lat, lon) ==
    \A name \in RegionNames :
        LET r == borough_bounds[name]
        IN  ~(r[1] <= lat /\ lat <= r[2] /\ r[3] <= lon /\ lon <= r[4])

(* C13: the name of the whole territory ('citywide' or 'all', in any letter *)
(* case) makes the containment test return true for every point, in polygon *)
(* mode and in rectangle mode, also for points outside every borough.       *)
WholeTerritoryContainsAll ==
    (Probed /\ TheProbe.target \in WholeTerritoryNames) => TheProbe.result

\* with the polygons loaded, 'CITYWIDE' was tested at a point outside every
\* borough and accepted
WholeTerritoryContainsAllWitness ==
    /\ Probed /\ PolygonMode
    /\ TheProbe.target = "CITYWIDE"
    /\ OutsideEveryBorough(TheProbe.lat, TheProbe.lon)
    /\ TheProbe.result

\* the answer of the rectangle tests for a stored label, or for the filter
RectangleAnswer(p) ==
    IF p.target = ""
    THEN ~OutsideEveryBorough(p.lat, p.lon)
    ELSE LET r == borough_bounds[p.target]
         IN  r[1] <= p.lat /\ p.lat <= r[2] /\ r[3] <= p.lon /\ p.lon <= r[4]

(* C14: when the polygon data is unavailable or fails to load (no library,  *)
(* no file, read or convert error) the constructor goes on to its next      *)
(* statement and no rows are kept; from then on nyc_boundaries never        *)
(* changes (the load is not retried) and every containment test and         *)
(* boundary filter gives the answer of the rectangle bounds.                *)
FallbackIsPermanent ==
    [][/\ pc = "load_boundaries" =>
             /\ pc' = "data_loader"
             /\ nyc_boundary_union' = <<>> => nyc_boundaries' = <<>>
       /\ pc # "load_boundaries" =>
             /\ nyc_boundaries' = nyc_boundaries
             /\ nyc_boundary_union' = nyc_boundary_union
       /\ (/\ probe' # <<>>
           /\ nyc_boundary_union' = <<>> \/ ~GEOPANDAS_AVAILABLE'
           /\ probe'[1].target \in RegionNames \cup {""})
             => probe'[1].result = RectangleAnswer(probe'[1])]_vars

\* geopandas is present, the load failed, the object was constructed and a
\* point on the edge of Manhattan's rectangle was accepted
FallbackIsPermanentWitness ==
    /\ Probed
    /\ GEOPANDAS_AVAILABLE /\ nyc_boundaries = <<>>
    /\ baseline_cache # NoCache
    /\ TheProbe.target = "Manhattan"
    /\ TheProbe.lat = 40700 /\ TheProbe.lon = -74019
    /\ TheProbe.result

\* the point of cell c lies in the union of the region boundaries
InUnion(c) ==
    IF PolygonMode
    THEN \E k \in 1..Len(BoundaryRows) :
            LET g == BoundaryRows[k].geometry
            IN  g[1] < Lats[c[1]] /\ Lats[c[1]] < g[2]
                    /\ g[3] < Lons[c[2]] /\ Lons[c[2]] < g[4]
    ELSE ~OutsideEveryBorough(Lats[c[1]], Lons[c[2]])

\* the place of cell c among the cells inside the union, rows first
Rank(c) ==
    Cardinality({d \in Cells :
                    /\ InUnion(d)
                    /\ (d[1] - 1) * GridRes + d[2] <= (c[1] - 1) * GridRes + c[2]})

\* the array an accessor call reads: the cache, or the working copy
Returned ==
    IF op = "apply_intervention" THEN modified_emissions ELSE Base

(* C15: grid accessor: get_baseline_grid and apply_intervention return one  *)
(* (lat, lon, value) triple for each grid cell inside the union of the      *)
(* region boundaries, in grid order, and none for a cell outside; the list  *)
(* of an intervention has the length, coordinates and order of the baseline *)
(* list.                                                                    *)
GridAccessor ==
    (op \in {"get_baseline_grid", "apply_intervention"} /\ response.status = "ok") =>
        /\ Len(response.points) = Cardinality({c \in Cells : InUnion(c)})
        /\ \A c \in Cells :
              InUnion(c) =>
                  response.points[Rank(c)]
                      = <<Lats[c[1]], Lons[c[2]], Returned[c]>>
        /\ Len(response.points) = Len(BaselinePoints)
        /\ \A n \in 1..Len(response.points) :
              /\ response.points[n][1] = BaselinePoints[n][1]
              /\ response.points[n][2] = BaselinePoints[n][2]

\* an intervention changed values, and its list is shorter than the grid
\* because cells outside the union were dropped
GridAccessorWitness ==
    /\ AppliedRules
    /\ Len(response.points) > 0
    /\ Len(response.points) < GridRes * GridRes
    /\ \E n \in 1..Len(response.points) :
          response.points[n][3] # BaselinePoints[n][3]
    /\ \E c \in Cells : ~InUnion(c) /\ modified_emissions[c] > 0

\* the constructor has just cached the finished grid
Finished == op = "_generate_baseline"

Cached == baseline_cache.emissions

\* the synthesis that ended went through every layer of
\* _generate_from_real_data
RealDataPath == layer = Len(LayerOrder)

(* C16: baseline grid invariant: after synthesis by any path (real data,    *)
(* synthetic, synthetic with sensor blending of arbitrary values) the       *)
(* cached grid has resolution x resolution cells and every cell is at       *)
(* least a small positive constant, so none is zero or negative.            *)
BaselineGridFloor ==
    Finished =>
        /\ DOMAIN Cached = SynthCells
        /\ \A c \in SynthCells : Cached[c] > 0

\* the sum of the contributions of all airports and hotspots at cell c
SourceSum(c) ==
    AirportContribution(airports[1], c) + AirportContribution(airports[2], c)
        + HotspotContribution(hotspots[1], c)
        + HotspotContribution(hotspots[2], c)
        + HotspotContribution(hotspots[3], c)

\* how many airports and hotspots have cell c within their radius
SourceCount(c) ==
    Cardinality({k \in 1..Len(airports) : Reaches(airports[k], c, RadiusCells)})
        + Cardinality({k \in 1..Len(hotspots) :
                          Reaches(hotspots[k], c, hotspots[k].radius)})

\* the ambient value of the cell's point
Ambient(c) ==
    _calculate_baseline_urban_emission(SynthLats[c[1]], SynthLons[c[2]])

\* the value of cell c after the hotspot, regional-density and ambient layers
AfterAmbient(c) ==
    IF SourceSum(c) < 1000 * VS THEN Max(SourceSum(c), Ambient(c)) ELSE SourceSum(c)

OverWater(c) == _is_over_water(SynthLats[c[1]], SynthLons[c[2]])

(* C17: layer order on the real-data path: the water override runs right    *)
(* after the ambient layer, the global floor right after the override and   *)
(* nothing after the floor, so in the finished baseline every over-water    *)
(* cell equals max(5, 5% of its value after the additive and ambient        *)
(* layers).                                                                 *)
LayerOrderRespected ==
    [][/\ op' = "water" => op = "ambient"
       /\ op' = "floor" => op = "water"
       /\ op = "floor" => Finished'
       /\ (Finished' /\ RealDataPath') =>
             \A c \in SynthCells :
                 OverWater(c) =>
                     Cached'[c] = Max(5 * VS, (AfterAmbient(c) * 5) \div 100)]_vars

\* a real-data baseline with a water cell held at 5% of a large value and a
\* water cell held at the floor of 5
LayerOrderRespectedWitness ==
    /\ Finished /\ RealDataPath
    /\ \E c1, c2 \in SynthCells :
          /\ OverWater(c1) /\ AfterAmbient(c1) > 1000 * VS
          /\ Cached[c1] = (AfterAmbient(c1) * 5) \div 100
          /\ OverWater(c2) /\ AfterAmbient(c2) < 100 * VS
          /\ Cached[c2] = 5 * VS

NearStation(c, station) ==
    /\ Abs(c[1] - ArgMin(SynthLats, station.lat)) <= 2
    /\ Abs(c[2] - ArgMin(SynthLons, station.lon)) <= 2

\* the weight exp(-cell_distance^2 / 2) of a station at cell c
StationWeight(c, station) ==
    LET di == c[1] - ArgMin(SynthLats, station.lat)
        dj == c[2] - ArgMin(SynthLons, station.lon)
    IN  ExpNegWide(500 * (di * di + dj * dj))

\* cell c after the stations from index k on, by old x (1 - w) + proxy x w
RECURSIVE AveragedCell(_, _, _, _)
AveragedCell(c, stations, k, v) ==
    IF k > Len(stations) THEN v
    ELSE AveragedCell(c, stations, k + 1,
            IF NearStation(c, stations[k])
            THEN MulDiv(v, FS - StationWeight(c, stations[k]))
                     + MulDiv(stations[k].value * 25, StationWeight(c, stations[k]))
            ELSE v)

\* cell c after the stations from index k on, by old x 0.7 + proxy x 0.3 x w
RECURSIVE BlendedCell(_, _, _, _)
BlendedCell(c, stations, k, v) ==
    IF k > Len(stations) THEN v
    ELSE BlendedCell(c, stations, k + 1,
            IF NearStation(c, stations[k])
            THEN MulDiv(v, 7 * (FS \div 10))
                     + MulDiv(stations[k].value * 75, StationWeight(c, stations[k]))
                           \div 10
            ELSE v)

(* C19 as stated: for each measurement every cell within 2 cells of the     *)
(* nearest grid cell becomes old x (1 - w) + proxy x w with                 *)
(* w = exp(-cell_distance^2 / 2), and cells outside are unchanged.          *)
SensorBlendAverage ==
    [][op' = "_blend_openaq_data" =>
          \A c \in SynthCells :
              emissions_grid'[c]
                  = AveragedCell(c, response.stations, 1, emissions_grid[c])]_vars

(* C19 amended: for each measurement, in turn, every cell within 2 cells of *)
(* the nearest grid cell becomes old x 0.7 + proxy x 0.3 x w with           *)
(* w = exp(-cell_distance^2 / 2) and proxy = 0.0025 x value; cells outside  *)
(* are unchanged, and the old value always keeps a share of 0.7.            *)
SensorBlend ==
    [][op' = "_blend_openaq_data" =>
          \A c \in SynthCells :
              emissions_grid'[c]
                  = BlendedCell(c, response.stations, 1, emissions_grid[c])]_vars

\* two stations were blended: a cell near both kept 0.49 of its value and
\* more, a cell near none kept its value
SensorBlendWitness ==
    /\ op = "_blend_openaq_data"
    /\ Len(response.stations) = 2
    /\ \E c1, c2 \in SynthCells :
          /\ NearStation(c1, response.stations[1])
          /\ NearStation(c1, response.stations[2])
          /\ emissions_grid[c1] > 0
          /\ ~NearStation(c2, response.stations[1])
          /\ ~NearStation(c2, response.stations[2])
          /\ \E noise \in NoiseFields :
                /\ emissions_grid[c2] = SyntheticGrid(noise)[c2]
                /\ emissions_grid[c1]
                      >= MulDiv(MulDiv(SyntheticGrid(noise)[c1], 700000), 700000)
                /\ emissions_grid[c1] # SyntheticGrid(noise)[c1]

CacheFreshness ==
    [][(op' = "fetch_openaq_data" /\ pc = "idle" /\ fetched_at # <<>>) =>
          IF now - fetched_at[1] < CacheMinutes
          THEN /\ requests' = <<>>
               /\ response'.stations = openaq_cache[1]
          ELSE requests' # <<>>]_vars

\* the weights the prompt parser's pattern generators produce, in tenths:
\* a hub intensity of 0.5 to 1.0 times a factor of 0.5 to 1.2
ParserWeights == 3..12

ParserProducible(pattern) ==
    \A k \in 1..Len(pattern) : pattern[k][3] \in ParserWeights

(* C22: overlay bound: the overlay is applied after all geographic          *)
(* modifications and multiplies only the cells within 0.05 degrees of an    *)
(* overlay point by 1 + (weight - 0.5) x 0.2; for every overlay the parser  *)
(* can produce, the total overlay change of a cell stays within plus or     *)
(* minus 10% of the cell's value after the modifications.                   *)
OverlayBound ==
    (AppliedRules /\ HasPattern /\ ParserProducible(ThePattern)) =>
        \A c \in Cells :
            \E v \in {CellProduct(c, TheMods, 1, Base[c])} :
                /\ modified_emissions[c] = CellOverlay(c, ThePattern, 1, v)
                /\ 10 * Abs(modified_emissions[c] - v) <= v + 10

(* ================= properties of a further synthesis =================== *)
\* the synthesis about to publish over an earlier grid was given the
\* measurements of the earlier one: none again, or the cached list
SameMeasurements == response.stations = <<>> \/ requests = <<>>

(* C23: reproducible synthesis: two syntheses from the same reference data  *)
(* and the same sensor measurements produce identical grids, whichever      *)
(* generation path is taken.                                                *)
ReproducibleSynthesis ==
    [][(Finished' /\ baseline_cache # NoCache /\ SameMeasurements) =>
          Cached' = Cached]_vars

(* ---------------------------------------------------------------------- *)
(* C24: whatever the sector name and the intervention, and whichever       *)
(* reference files failed to load, the result of get_emissions_for_sector  *)
(* holds baseline_tons_co2, reduced_tons_co2 and annual_savings_tons_co2,  *)
(* and the savings are the baseline minus the reduced total.               *)
SavingsIdentity ==
    sector_result # <<>> =>
        LET r == sector_result[1].result
        IN  /\ {"baseline_tons_co2", "reduced_tons_co2",
                "annual_savings_tons_co2"} \subseteq DOMAIN r
            /\ r.annual_savings_tons_co2 = r.baseline_tons_co2 - r.reduced_tons_co2

\* an increase of transport emissions computed from the defaults, because the
\* vehicle file failed to load: the savings are negative
SavingsIdentityWitness ==
    /\ sector_result # <<>>
    /\ loader_cache[1].transport_vehicles = EmptyData
    /\ sector_result[1].sector = "transport"
    /\ "reduction_percent" \in sector_result[1].intervention.present
    /\ sector_result[1].intervention.reduction_percent < 0
    /\ sector_result[1].result.baseline_tons_co2 = 6288000
    /\ sector_result[1].result.annual_savings_tons_co2 = 0 - 628800

(* ---------------------------------------------------------------------- *)
(* C25: synthesis always yields a grid.  When real-data generation raises, *)
(* or no data loader is available, _generate_baseline falls back to the    *)
(* synthetic baseline: once the object is constructed baseline_cache is    *)
(* never None, and no reader finds it None and starts a synthesis of its   *)
(* own.                                                                    *)
AlwaysAGrid ==
    /\ Constructed => baseline_cache # NoCache
    /\ seen # <<>> => ~seen.regenerated

\* a data loader exists, real-data generation raised, the synthetic grid was
\* cached in its place and a reader took it
AlwaysAGridWitness ==
    /\ pc = "idle"
    /\ data_loader /\ ~RealDataPath
    /\ syntheses = 1
    /\ baseline_cache # NoCache
    /\ seen # <<>>
    /\ seen.emissions = baseline_cache.emissions

(* ---------------------------------------------------------------------- *)
(* C26: atomic cache rebuild.  The cached triple changes only by the one   *)
(* assignment that ends _generate_baseline, which stores the grid the      *)
(* synthesis has finished building; no other step changes it.  A reader    *)
(* running between any two steps of a regeneration takes the triple that   *)
(* is cached at that moment, the complete old grid or the complete new     *)
(* one.                                                                    *)
AtomicRebuild ==
    [][/\ baseline_cache' # baseline_cache =>
             /\ op' = "_generate_baseline"
             /\ op \in {"floor", "_blend_openaq_data"}
             /\ Cached' = emissions_grid
       /\ seen' # seen =>
             /\ seen'.emissions = Cached
             /\ baseline_cache' = baseline_cache]_vars

\* a reader took the old grid while the second synthesis was under way, and
\* the second synthesis has since published a different grid
AtomicRebuildWitness ==
    /\ syntheses = 2
    /\ Finished
    /\ seen # <<>>
    /\ ~seen.regenerated
    /\ seen.emissions # Cached
    /\ \A c \in SynthCells : seen.emissions[c] >= 0

(* ---------------------------------------------------------------------- *)
(* C27: order independence of rules.  Whatever the order in which the      *)
(* rules of the applied intervention are listed, apply_intervention gives  *)
(* the same grid: the grids of all permutations agree cell by cell, up to  *)
(* the one unit of 10^-4 tonnes that each multiplication may round away.   *)
Reorderings(mods) ==
    { [k \in 1..Len(mods) |-> mods[p[k]]] :
        p \in { q \in [1..Len(mods) -> 1..Len(mods)] :
                  \A a, b \in 1..Len(mods) : q[a] = q[b] => a = b } }

\* the grid apply_intervention computes for the applied intervention with
\* its rules in the order mods
GridInOrder(mods) ==
    LET r == ApplyResult([TheIntervention EXCEPT !.geographic_modifications = mods],
                         baseline_cache, nyc_boundaries, GEOPANDAS_AVAILABLE)
    IN  r.heap[r.modified_ref]

RoundingUnits ==
    Len(TheMods) + (IF HasPattern THEN Len(TheIntervention.spatial_pattern) ELSE 0)

OrderIndependence ==
    AppliedRules =>
        \A mods \in Reorderings(TheMods) :
            \A grid \in {GridInOrder(mods)} :
                \A c \in Cells :
                    Abs(grid[c] - modified_emissions[c]) <= RoundingUnits

\* two rules of different types multiplied one and the same cell, so that
\* the two orders multiply it in different sequence
OrderIndependenceWitness ==
    /\ AppliedRules /\ ~HasPattern
    /\ Len(TheMods) = 2
    /\ TheMods[1].type # TheMods[2].type
    /\ \E c \in Cells :
          /\ ModAffects(TheMods[1], c, Base, nyc_boundaries, GEOPANDAS_AVAILABLE)
          /\ ModAffects(TheMods[2], c, Base, nyc_boundaries, GEOPANDAS_AVAILABLE)
          /\ ModFactor(TheMods[1], c) < FS /\ ModFactor(TheMods[2], c) < FS
          /\ 0 < modified_emissions[c]
          /\ modified_emissions[c] < MulDiv(Base[c], ModFactor(TheMods[1], c))
          /\ modified_emissions[c] < MulDiv(Base[c], ModFactor(TheMods[2], c))

(* ---------------------------------------------------------------------- *)
(* C28: a rule whose type is none of 'hotspot', 'borough' and 'baseline'   *)
(* changes no cell and raises nothing: the call ends as it ends, and       *)
(* leaves the grid it leaves, for the same intervention without the rules  *)
(* of other types.                                                         *)
HandledTypes == {"hotspot", "borough", "baseline"}

HandledMods(mods) ==
    SelectSeq(mods, LAMBDA mod : Get(mod, "type", "None") \in HandledTypes)

UnknownTypeIgnored ==
    (Applied /\ ~TheIntervention.is_unrelated) =>
        LET r == ApplyResult([TheIntervention EXCEPT
                                 !.geographic_modifications = HandledMods(TheMods)],
                             baseline_cache, nyc_boundaries, GEOPANDAS_AVAILABLE)
        IN  /\ response.status = r.status
            /\ modified_emissions = r.heap[r.modified_ref]

\* a 'region' rule for Manhattan came before a borough rule for Manhattan:
\* the call returned, the cells of Manhattan lost a fifth and no other cell
\* changed
UnknownTypeIgnoredWitness ==
    /\ AppliedRules /\ ~HasPattern
    /\ Len(TheMods) = 2
    /\ TheMods[1].type = "region" /\ TheMods[1].area = "Manhattan"
    /\ TheMods[2].type = "borough"
    /\ \E c \in Cells : modified_emissions[c] # Base[c]
    /\ \A c \in Cells :
          modified_emissions[c] =
              IF ModAffects(TheMods[2], c, Base, nyc_boundaries, GEOPANDAS_AVAILABLE)
              THEN MulDiv(Base[c], UniformFactor(-20))
              ELSE Base[c]

(* ---------------------------------------------------------------------- *)
(* C29: an area name that matches no region and is not a name of the whole *)
(* territory selects no point, with the polygons and with the rectangles   *)
(* alike.                                                                  *)
UnknownAreaSelectsNothing ==
    (/\ Probed
     /\ Canonical(TheProbe.target) \notin RegionNames
     /\ TheProbe.target \notin WholeTerritoryNames) =>
        ~TheProbe.result

(* ---------------------------------------------------------------------- *)
(* C30: hotspot centring.  For every entry of the airport and hotspot      *)
(* tables inside the bounding box, the cell on which its kernel is centred *)
(* is the cell whose linspace sample is nearest to the entry, in latitude  *)
(* and in longitude: no other sample is nearer.                            *)
KernelCentredOnNearest ==
    op = "kernel_centre" =>
        LET p == probe[1]
            n == p.grid_resolution
        IN  (p.i \in 1..n /\ p.j \in 1..n) =>
                \A k \in 1..n :
                    /\ SampleOffset(p.lat, South, North, n, p.i)
                          <= SampleOffset(p.lat, South, North, n, k)
                    /\ SampleOffset(p.lon, West, East, n, p.j)
                          <= SampleOffset(p.lon, West, East, n, k)

====
